---------------------------- MODULE Spec2Model ----------------------------
(***************************************************************************)
(* A model of the core of dialmateai: the adaptive IQ assessment, the      *)
(* conversation processor (sessions), the relationship tracker (directed   *)
(* interaction graph), the relationship analyzer (trust scores) and the    *)
(* integrated analyzer (fan-out analysis with a per-conversation cache).   *)
(*                                                                         *)
(* Numbers.  Python floats are modelled exactly:                           *)
(*   - assessment scores and difficulties are integers in thousandths      *)
(*     (0.5 is 500);                                                       *)
(*   - graph and trust statistics are reduced fractions <<num, den>>;      *)
(*   - times are integer seconds.                                          *)
(* Every component has specifications of its own (SpecAssess, SpecStreak,  *)
(* SpecWindow; SpecSession, SpecRate; SpecGraph, SpecQuery, SpecStrength;  *)
(* SpecTrust; SpecOrch, SpecOrchLive, SpecReport) over the same variables; *)
(* the variables of the other components stay as constructed.              *)
(***************************************************************************)
EXTENDS Integers, Sequences, FiniteSets, TLC

VARIABLES
    current_difficulty,    \* AdaptiveIQAssessment.current_difficulty (thousandths)
    response_history,      \* AdaptiveIQAssessment.response_history: user -> list
    scored,                \* observer: successful process_response calls per user
    active_conversations,  \* ConversationProcessor.active_conversations
    recorded,              \* observer: events recorded per live session
    analysis_pending,      \* process_message calls suspended in analyze_message
    evicted,               \* observer: ids swept and not recorded again since
    interaction_graph,     \* RelationshipTracker.interaction_graph (edge data)
    interaction_history,   \* RelationshipTracker.interaction_history
    relationships,         \* UserProfile.relationships of every profile
    analysis_cache,        \* IntegratedAnalyzer.analysis_cache
    calls,                 \* process_conversation calls and their three tasks
    reports,               \* generate_analysis_report calls past the cache lookup
    now,                   \* the clock read by datetime.now(), in seconds
    last_call              \* the latest operation, its arguments and its result

assess_vars  == <<current_difficulty, response_history, scored>>
session_vars == <<active_conversations, recorded, analysis_pending, evicted>>
graph_vars   == <<interaction_graph, interaction_history>>
trust_vars   == <<relationships>>
orch_vars    == <<analysis_cache, calls, reports>>
vars == <<current_difficulty, response_history, scored, active_conversations,
          recorded, analysis_pending, evicted, interaction_graph, interaction_history,
          relationships, analysis_cache, calls, reports, now, last_call>>

None == "None"

UserIds == {1, 2}

(***************************************************************************)
(* Helpers on sequences and integers.                                      *)
(***************************************************************************)
Min(a, b) == IF a <= b THEN a ELSE b
Max(a, b) == IF a >= b THEN a ELSE b
Abs(a) == IF a < 0 THEN 0 - a ELSE a

RECURSIVE SumSeq(_)
SumSeq(s) == IF s = <<>> THEN 0 ELSE Head(s) + SumSeq(Tail(s))

\* the sum of f over the set S
RECURSIVE SumOver(_, _)
SumOver(S, f) ==
    IF S = {} THEN 0
    ELSE LET x == CHOOSE y \in S : TRUE IN f[x] + SumOver(S \ {x}, f)

\* an empty dict
EmptyMap == [x \in {} |-> None]

\* Python's s[-k:]
LastN(s, k) == IF Len(s) <= k THEN s ELSE SubSeq(s, Len(s) - k + 1, Len(s))

(***************************************************************************)
(* Exact fractions <<numerator, denominator>>, reduced, denominator > 0.   *)
(***************************************************************************)
RECURSIVE GCD(_, _)
GCD(a, b) == IF b = 0 THEN a ELSE GCD(b, a % b)

Frac(n, d) ==
    LET g == GCD(Abs(n), Abs(d))
        sgn == IF d < 0 THEN 0 - 1 ELSE 1
    IN  <<(sgn * n) \div g, (sgn * d) \div g>>

FInt(n) == <<n, 1>>
FAdd(a, b) ==
    LET l == (a[2] \div GCD(a[2], b[2])) * b[2]
    IN  Frac(a[1] * (l \div a[2]) + b[1] * (l \div b[2]), l)
FNeg(a) == <<0 - a[1], a[2]>>
FSub(a, b) == FAdd(a, FNeg(b))
FMul(a, b) ==
    LET x == Frac(a[1], b[2])
        y == Frac(b[1], a[2])
    IN  Frac(x[1] * y[1], x[2] * y[2])
FDiv(a, b) == FMul(a, Frac(b[2], b[1]))
FAbs(a) == <<Abs(a[1]), a[2]>>
FLeq(a, b) == a[1] * b[2] <= b[1] * a[2]
FLess(a, b) == a[1] * b[2] < b[1] * a[2]

RECURSIVE FSum(_)
FSum(s) == IF s = <<>> THEN FInt(0) ELSE FAdd(Head(s), FSum(Tail(s)))

\* the arithmetic mean of a non-empty sequence of fractions
FMean(s) == FDiv(FSum(s), FInt(Len(s)))

(***************************************************************************)
(* AdaptiveIQAssessment (src/src/core/assessment/iq_assessment.py)         *)
(***************************************************************************)
Categories == <<"logical_reasoning", "pattern_recognition", "spatial_reasoning",
                "numerical_reasoning", "verbal_reasoning", "memory">>

question_bank ==
    [c \in {Categories[i] : i \in 1..Len(Categories)} |->
        CASE c = "logical_reasoning" ->
                {[id |-> "L1", category |-> "logical_reasoning", difficulty |-> 500,
                  correct_answer |-> "All A are C", time_limit |-> 60,
                  cognitive_areas |-> {"deductive_reasoning", "logical_inference"}]}
          [] c = "pattern_recognition" ->
                {[id |-> "P1", category |-> "pattern_recognition", difficulty |-> 600,
                  correct_answer |-> "42", time_limit |-> 45,
                  cognitive_areas |-> {"sequence_recognition", "mathematical_reasoning"}]}
          [] OTHER -> {}]

AllQuestions == UNION {question_bank[c] : c \in DOMAIN question_bank}

InitialDifficulty == 500
DifficultyCap == 950
DifficultyFloor == 200
DifficultyStep == 100
CompleteThreshold == 20
RecentResponses == 3

\* Inputs of the assessment operations.
QuestionIds == {"L1", "P1", "X9"}
Answers == {"All A are C", "42"}
ResponseTimes == {0, 30, 120}

\* _find_question is called but not defined in the repository: the lookup of a
\* question by id over the whole bank, None when the id is unknown.
NoQuestion == [id |-> None, category |-> None, difficulty |-> 0,
               correct_answer |-> None, time_limit |-> 0, cognitive_areas |-> {}]

find_question(question_id) ==
    IF \E q \in AllQuestions : q.id = question_id
    THEN CHOOSE q \in AllQuestions : q.id = question_id
    ELSE NoQuestion

AnsweredIds(history) == {history[i].question_id : i \in 1..Len(history)}

\* _select_category is called but not defined in the repository, and the spec
\* leaves the policy open ("under-specified in the source", ties arbitrary).  Its
\* result indexes question_bank, so it is one of the bank's categories: the set
\* of the categories it may return.
select_category(history) == DOMAIN question_bank

NearDifficultyWide(qd, cd) == Abs(qd - cd) <= 2 * DifficultyStep

\* abs(q.difficulty - self.current_difficulty) < 0.1 on IEEE doubles.  The
\* difficulties the code reaches are 0.5 +/- k*0.1 clamped to [0.2, 0.95]; for
\* these and the bank's 0.5 and 0.6 a difference of exactly one tenth is computed
\* as 0.09999999999999998, which is below 0.1, so the boundary is included.
NearDifficulty(qd, cd) == Abs(qd - cd) <= DifficultyStep

SuitableNoHistoryCheck(category, cd, history) ==
    {q \in question_bank[category] : NearDifficulty(q.difficulty, cd)}

suitable_questions(category, cd, history) ==
    {q \in question_bank[category] :
        /\ NearDifficulty(q.difficulty, cd)
        /\ q.id \notin AnsweredIds(history)}

\* time_factor, in thousandths.  ResponseTimes divide the time limits so that
\* no rounding happens.
time_factor(question, response_time) ==
    IF response_time > 0
    THEN Min(1000, (question.time_limit * 1000) \div response_time)
    ELSE 0

\* no base score for a correct answer
ScoreWithoutBase(is_correct, tf, difficulty) == (tf * 2) \div 10 + (difficulty * 3) \div 10

calculate_performance_score(is_correct, tf, difficulty) ==
    (IF is_correct THEN 1000 ELSE 0) + (tf * 2) \div 10 + (difficulty * 3) \div 10

RecentScoresAll(history) == [i \in 1..Len(history) |-> history[i].performance_score]

RecentScores(history) ==
    LET recent == LastN(history, RecentResponses)
    IN  [i \in 1..Len(recent) |-> recent[i].performance_score]

AdjustNoClamp(cd, history) ==
    LET s == RecentScores(history)
    IN  IF SumSeq(s) * 10 > 7000 * Len(s) THEN cd + DifficultyStep
        ELSE IF SumSeq(s) * 10 < 3000 * Len(s) THEN cd - DifficultyStep
        ELSE cd

\* mean(last 3 performance scores) > 0.7 / < 0.3, compared without dividing
adjust_difficulty(cd, history) ==
    LET s == RecentScores(history)
    IN  IF SumSeq(s) * 10 > 7000 * Len(s) THEN Min(DifficultyCap, cd + DifficultyStep)
        ELSE IF SumSeq(s) * 10 < 3000 * Len(s) THEN Max(DifficultyFloor, cd - DifficultyStep)
        ELSE cd

IsCompleteOnlyAtThreshold(history) == Len(history) = CompleteThreshold

IsCompleteStrict(history) == Len(history) > CompleteThreshold

IsComplete(history) == Len(history) >= CompleteThreshold

get_next_question(u) ==
    LET history == IF u \in DOMAIN response_history THEN response_history[u] ELSE <<>>
    IN  /\ response_history' = [v \in DOMAIN response_history \cup {u} |->
                                    IF v = u THEN history ELSE response_history[v]]
        /\ \E category \in select_category(history) :
              LET suitable == suitable_questions(category, current_difficulty, history)
              IN  \/ /\ suitable # {}
                     /\ \E q \in suitable :
                          last_call' = [op |-> "get_next_question",
                                        args |-> <<u, category>>, result |-> q.id]
                  \/ /\ suitable = {}
                     /\ last_call' = [op |-> "get_next_question",
                                      args |-> <<u, category>>, result |-> None]
        /\ UNCHANGED <<current_difficulty, scored>>

ResponseResult(err, score, complete) ==
    [error |-> err, score |-> score, complete |-> complete]

QuestionNeverMissing(question) == FALSE

\* if not question
question_missing(question) == question = NoQuestion

process_response(u, question_id, answer, response_time) ==
    LET question == find_question(question_id)
    IN  \/ /\ question_missing(question)
           /\ last_call' = [op |-> "process_response",
                            args |-> <<u, question_id>>,
                            result |-> ResponseResult("Question not found", 0, FALSE)]
           /\ UNCHANGED assess_vars
        \/ /\ ~question_missing(question)
           /\ u \notin DOMAIN response_history
           \* self.response_history[user_id] raises KeyError
           /\ last_call' = [op |-> "process_response",
                            args |-> <<u, question_id>>,
                            result |-> ResponseResult("KeyError", 0, FALSE)]
           /\ UNCHANGED assess_vars
        \/ /\ ~question_missing(question)
           /\ u \in DOMAIN response_history
           /\ LET is_correct == (answer = question.correct_answer)
                  tf == time_factor(question, response_time)
                  performance_score ==
                      calculate_performance_score(is_correct, tf, question.difficulty)
                  history == Append(response_history[u],
                                    [question_id |-> question_id,
                                     correct |-> is_correct,
                                     time_factor |-> tf,
                                     performance_score |-> performance_score])
              IN  /\ response_history' = [response_history EXCEPT ![u] = history]
                  /\ current_difficulty' = adjust_difficulty(current_difficulty, history)
                  /\ scored' = [scored EXCEPT ![u] = @ + 1]
                  /\ last_call' = [op |-> "process_response",
                                   args |-> <<u, question_id>>,
                                   result |-> ResponseResult("", performance_score,
                                                             IsComplete(history))]

\* How calculate_final_iq ends for a user whose history is the empty list:
\* np.mean([]) and np.std([]) are nan, final_iq is nan, and round(final_iq)
\* raises ValueError where rounding a numpy scalar yields an int; where it
\* yields a numpy float the call goes on to _calculate_percentile, whose norm
\* is imported nowhere (NameError).
EmptyHistoryFailures == {"ValueError", "NameError"}

\* calculate_final_iq.  For a non-empty history lines 153-174 compute the score
\* and line 180 raises NameError (norm); nothing is stored in either case.
calculate_final_iq(u) ==
    /\ \/ /\ u \notin DOMAIN response_history
          /\ last_call' = [op |-> "calculate_final_iq", args |-> <<u>>,
                           result |-> [error |-> "No test data found"]]
       \/ /\ u \in DOMAIN response_history
          /\ response_history[u] = <<>>
          /\ \E failure \in EmptyHistoryFailures :
                last_call' = [op |-> "calculate_final_iq", args |-> <<u>>,
                              result |-> [error |-> failure]]
       \/ /\ u \in DOMAIN response_history
          /\ response_history[u] # <<>>
          /\ last_call' = [op |-> "calculate_final_iq", args |-> <<u>>,
                           result |-> [error |-> "NameError"]]
    /\ UNCHANGED assess_vars

(***************************************************************************)
(* ConversationProcessor (src/src/core/analyzer/conversation_processor.py) *)
(*                                                                         *)
(* The coroutines run on one asyncio event loop: the code between two      *)
(* awaits is one atomic step.  process_message mutates the session before  *)
(* its only await (analyze_message); cleanup_old_conversations has none.   *)
(* The datetime.now() calls of one step read the same clock value.         *)
(***************************************************************************)
ConversationIds == {"c1", "c2"}
Texts == {"hello"}
SecondsPerHour == 3600
SecondsPerDay == 86400
DefaultMaxAgeHours == 24
MaxAgeHours == {12, DefaultMaxAgeHours}
TickSeconds == 12 * SecondsPerHour

Message(conversation_id, user_id, text) ==
    [conversation_id |-> conversation_id, user_id |-> user_id, text |-> text,
     timestamp |-> now, type |-> "text"]

NewConversation(t) ==
    [messages |-> <<>>, participants |-> {}, start_time |-> t, last_update |-> t]

MapPut(f, k, v) == [x \in DOMAIN f \cup {k} |-> IF x = k THEN v ELSE f[x]]

RecordAlwaysCreates(conversations, message, t) ==
    LET conversation == NewConversation(t)
    IN  MapPut(conversations, message.conversation_id,
               [conversation EXCEPT !.messages = Append(@, message),
                                    !.participants = @ \cup {message.user_id},
                                    !.last_update = t])

\* the sender is added to participants only when the session is created
RecordAddsFirstSenderOnly(conversations, message, t) ==
    LET conversation_id == message.conversation_id
        conversation == IF conversation_id \in DOMAIN conversations
                        THEN conversations[conversation_id]
                        ELSE [NewConversation(t) EXCEPT !.participants = {message.user_id}]
    IN  MapPut(conversations, conversation_id,
               [conversation EXCEPT !.messages = Append(@, message),
                                    !.last_update = t])

\* lines 22-37: create the session if absent, append, add the sender, touch
RecordMessage(conversations, message, t) ==
    LET conversation_id == message.conversation_id
        conversation == IF conversation_id \in DOMAIN conversations
                        THEN conversations[conversation_id]
                        ELSE NewConversation(t)
    IN  MapPut(conversations, conversation_id,
               [conversation EXCEPT !.messages = Append(@, message),
                                    !.participants = @ \cup {message.user_id},
                                    !.last_update = t])

IsOldInclusive(conv_data, current_time, max_age_hours) ==
    current_time - conv_data.last_update >= max_age_hours * SecondsPerHour

\* age = (current_time - last_update).total_seconds() / 3600; age > max_age_hours
IsOld(conv_data, current_time, max_age_hours) ==
    current_time - conv_data.last_update > max_age_hours * SecondsPerHour

RemoveEveryConversation(conversations, current_time, max_age_hours) ==
    DOMAIN conversations

conversations_to_remove(conversations, current_time, max_age_hours) ==
    {conv_id \in DOMAIN conversations :
        IsOld(conversations[conv_id], current_time, max_age_hours)}

process_message(message) ==
    /\ active_conversations' = RecordMessage(active_conversations, message, now)
    /\ recorded' = [recorded EXCEPT ![message.conversation_id] =
                        Append(@, [message |-> message, at |-> now])]
    /\ analysis_pending' = analysis_pending + 1
    /\ evicted' = evicted \ {message.conversation_id}
    /\ last_call' = [op |-> "process_message",
                     args |-> <<message.conversation_id, message.user_id>>,
                     result |-> None]

\* line 40: the awaited analyzer.analyze_message answers (a result or an
\* exception): the call ends, the sessions are as they are
analyze_message_returns ==
    /\ analysis_pending > 0
    /\ analysis_pending' = analysis_pending - 1
    /\ last_call' = [op |-> "analyze_message", args |-> <<>>, result |-> None]
    /\ UNCHANGED <<active_conversations, recorded, evicted>>

cleanup_old_conversations(max_age_hours) ==
    LET removed == conversations_to_remove(active_conversations, now, max_age_hours)
    IN  /\ active_conversations' =
              [conv_id \in DOMAIN active_conversations \ removed |->
                  active_conversations[conv_id]]
        /\ recorded' = [c \in ConversationIds |->
                          IF c \in removed THEN <<>> ELSE recorded[c]]
        /\ last_call' = [op |-> "cleanup_old_conversations",
                         args |-> <<max_age_hours>>, result |-> removed]
        /\ evicted' = evicted \cup removed
        /\ UNCHANGED analysis_pending

\* timedelta.seconds: the seconds field of a timedelta that is not negative,
\* the whole days left out
TimedeltaSeconds(delta) == delta % SecondsPerDay

NotFoundResult == [error |-> "Conversation not found"]

\* the dict get_conversation_summary returns for a session
conversation_summary(conversation) ==
    [participant_count |-> Cardinality(conversation.participants),
     message_count |-> Len(conversation.messages),
     duration |-> TimedeltaSeconds(conversation.last_update - conversation.start_time),
     active_participants |-> conversation.participants,
     last_update |-> conversation.last_update]

SummaryCreatesSession(conversation_id) ==
    LET conversations == IF conversation_id \in DOMAIN active_conversations
                         THEN active_conversations
                         ELSE MapPut(active_conversations, conversation_id,
                                     NewConversation(now))
    IN  /\ active_conversations' = conversations
        /\ last_call' = [op |-> "get_conversation_summary", args |-> <<conversation_id>>,
                         result |-> conversation_summary(conversations[conversation_id])]
        /\ UNCHANGED <<recorded, analysis_pending, evicted>>

get_conversation_summary(conversation_id) ==
    /\ last_call' = [op |-> "get_conversation_summary", args |-> <<conversation_id>>,
                     result |-> IF conversation_id \notin DOMAIN active_conversations
                                THEN NotFoundResult
                                ELSE conversation_summary(
                                         active_conversations[conversation_id])]
    /\ UNCHANGED session_vars

MessagesPerMinuteLateGuard(total_messages, duration) ==
    IF duration > 60 THEN Frac(total_messages * 60, duration) ELSE FInt(0)

\* (total_messages * 60) / duration if duration > 0 else 0
messages_per_minute(total_messages, duration) ==
    IF duration > 0 THEN Frac(total_messages * 60, duration) ELSE FInt(0)

\* the dict get_conversation_metrics returns for a session
conversation_rates(conversation) ==
    LET total_messages == Len(conversation.messages)
        participants == conversation.participants
        duration == TimedeltaSeconds(conversation.last_update - conversation.start_time)
        senders == {conversation.messages[i].user_id : i \in 1..total_messages}
    IN  [total_messages |-> total_messages,
         participant_count |-> Cardinality(participants),
         duration_seconds |-> duration,
         messages_per_participant |->
             [user_id \in senders |->
                 Cardinality({i \in 1..total_messages :
                                 conversation.messages[i].user_id = user_id})],
         average_messages_per_participant |->
             IF participants # {}
             THEN Frac(total_messages, Cardinality(participants)) ELSE FInt(0),
         messages_per_minute |-> messages_per_minute(total_messages, duration)]

get_conversation_metrics(conversation_id) ==
    /\ last_call' = [op |-> "get_conversation_metrics", args |-> <<conversation_id>>,
                     result |-> IF conversation_id \notin DOMAIN active_conversations
                                THEN NotFoundResult
                                ELSE conversation_rates(
                                         active_conversations[conversation_id])]
    /\ UNCHANGED session_vars


(***************************************************************************)
(* RelationshipTracker (src/src/core/tracking/conversation_tracker.py)     *)
(* track_interaction awaits only calculate_relationship_metrics, which     *)
(* never suspends: one call is one atomic step.                            *)
(***************************************************************************)
WindowDays == 30

\* dict.get(key, default)
Get(d, key, default) == IF key \in DOMAIN d THEN d[key] ELSE default

\* message_content dictionaries: an empty one and two with every numeric field
Signals ==
    { EmptyMap,
      [sentiment |-> Frac(1, 1), engagement |-> Frac(1, 2), response_time |-> FInt(2)],
      [sentiment |-> Frac(0 - 1, 2), engagement |-> Frac(1, 1), response_time |-> FInt(0)] }

InteractionEvent(sender_id, receiver_id, message_content, t) ==
    [timestamp |-> t, sender_id |-> sender_id, receiver_id |-> receiver_id,
     message_type |-> Get(message_content, "type", "text"),
     sentiment_score |-> Get(message_content, "sentiment", FInt(0)),
     engagement_score |-> Get(message_content, "engagement", FInt(0)),
     response_time |-> Get(message_content, "response_time", FInt(0))]

NewEdge == [interactions |-> 0, avg_sentiment |-> FInt(0), avg_engagement |-> FInt(0)]

RollingAverageAfterIncrement(n, avg, x) ==
    FDiv(FAdd(FMul(FInt(n + 1), avg), x), FInt(n + 1))

\* (n * avg + x) / (n + 1)
RollingAverage(n, avg, x) == FDiv(FAdd(FMul(FInt(n), avg), x), FInt(n + 1))

UpdateGraphBothDirections(graph, event) ==
    LET key == <<event.sender_id, event.receiver_id>>
        back == <<event.receiver_id, event.sender_id>>
        bump(g, k) ==
            LET edge == IF k \in DOMAIN g THEN g[k] ELSE NewEdge
                n == edge.interactions
            IN  MapPut(g, k,
                       [interactions |-> n + 1,
                        avg_sentiment |->
                            FDiv(FAdd(FMul(FInt(n), edge.avg_sentiment),
                                      event.sentiment_score), FInt(n + 1)),
                        avg_engagement |->
                            FDiv(FAdd(FMul(FInt(n), edge.avg_engagement),
                                      event.engagement_score), FInt(n + 1))])
    IN  IF key = back THEN bump(graph, key) ELSE bump(bump(graph, key), back)

UpdateGraphFromStaleEdge(graph, event) ==
    MapPut(graph, <<event.sender_id, event.receiver_id>>,
           [interactions |-> 1, avg_sentiment |-> event.sentiment_score,
            avg_engagement |-> event.engagement_score])

update_graph(graph, event) ==
    LET key == <<event.sender_id, event.receiver_id>>
        edge == IF key \in DOMAIN graph THEN graph[key] ELSE NewEdge
        n == edge.interactions
    IN  MapPut(graph, key,
               [interactions |-> n + 1,
                avg_sentiment |-> RollingAverage(n, edge.avg_sentiment, event.sentiment_score),
                avg_engagement |-> RollingAverage(n, edge.avg_engagement, event.engagement_score)])

\* one history per unordered pair
AppendHistoryUnderSortedKey(history, event) ==
    LET pair_key == <<Min(event.sender_id, event.receiver_id),
                      Max(event.sender_id, event.receiver_id)>>
    IN  MapPut(history, pair_key, Append(Get(history, pair_key, <<>>), event))

append_history(history, event) ==
    LET pair_key == <<event.sender_id, event.receiver_id>>
    IN  MapPut(history, pair_key, Append(Get(history, pair_key, <<>>), event))

\* both directions' histories without the cutoff
RecentWithoutCutoff(history, user1_id, user2_id, t) ==
    Get(history, <<user1_id, user2_id>>, <<>>) \o Get(history, <<user2_id, user1_id>>, <<>>)

get_recent_interactions(history, user1_id, user2_id, t) ==
    LET cutoff_time == t - WindowDays * SecondsPerDay
    IN  SelectSeq(Get(history, <<user1_id, user2_id>>, <<>>)
                      \o Get(history, <<user2_id, user1_id>>, <<>>),
                  LAMBDA interaction : interaction.timestamp > cutoff_time)

StrengthFromWrongReverseEdge(graph, user1_id, user2_id) ==
    IF <<user1_id, user2_id>> \notin DOMAIN graph THEN FInt(0)
    ELSE LET edge1 == graph[<<user1_id, user2_id>>]
             has2 == <<user2_id, user2_id>> \in DOMAIN graph
             edge2 == IF has2 THEN graph[<<user2_id, user2_id>>] ELSE NewEdge
         IN  FAdd(FMul(Frac(3, 10),
                       Frac(Min(edge1.interactions, IF has2 THEN edge2.interactions ELSE 0),
                            Max(edge1.interactions, IF has2 THEN edge2.interactions ELSE 1))),
                  FAdd(FMul(Frac(4, 10),
                            FSub(FInt(1), FDiv(FAbs(FSub(edge1.avg_sentiment,
                                                         edge2.avg_sentiment)), FInt(2)))),
                       FMul(Frac(3, 10),
                            FSub(FInt(1), FDiv(FAbs(FSub(edge1.avg_engagement,
                                                         edge2.avg_engagement)), FInt(2))))))

\* the weights of balance and sentiment harmony exchanged
StrengthWeightsExchanged(graph, user1_id, user2_id) ==
    IF <<user1_id, user2_id>> \notin DOMAIN graph THEN FInt(0)
    ELSE LET edge1 == graph[<<user1_id, user2_id>>]
             has2 == <<user2_id, user1_id>> \in DOMAIN graph
             edge2 == IF has2 THEN graph[<<user2_id, user1_id>>] ELSE NewEdge
         IN  FAdd(FMul(Frac(4, 10),
                       Frac(Min(edge1.interactions, IF has2 THEN edge2.interactions ELSE 0),
                            Max(edge1.interactions, IF has2 THEN edge2.interactions ELSE 1))),
                  FAdd(FMul(Frac(3, 10),
                            FSub(FInt(1), FDiv(FAbs(FSub(edge1.avg_sentiment,
                                                         edge2.avg_sentiment)), FInt(2)))),
                       FMul(Frac(3, 10),
                            FSub(FInt(1), FDiv(FAbs(FSub(edge1.avg_engagement,
                                                         edge2.avg_engagement)), FInt(2))))))

calculate_relationship_strength(graph, user1_id, user2_id) ==
    IF <<user1_id, user2_id>> \notin DOMAIN graph THEN FInt(0)
    ELSE LET edge1 == graph[<<user1_id, user2_id>>]
             has2 == <<user2_id, user1_id>> \in DOMAIN graph
             edge2 == IF has2 THEN graph[<<user2_id, user1_id>>] ELSE NewEdge
             interaction_balance ==
                 Frac(Min(edge1.interactions, IF has2 THEN edge2.interactions ELSE 0),
                      Max(edge1.interactions, IF has2 THEN edge2.interactions ELSE 1))
             sentiment_harmony ==
                 FSub(FInt(1), FDiv(FAbs(FSub(edge1.avg_sentiment, edge2.avg_sentiment)),
                                    FInt(2)))
             engagement_harmony ==
                 FSub(FInt(1), FDiv(FAbs(FSub(edge1.avg_engagement, edge2.avg_engagement)),
                                    FInt(2)))
         IN  FAdd(FMul(Frac(3, 10), interaction_balance),
                  FAdd(FMul(Frac(4, 10), sentiment_harmony),
                       FMul(Frac(3, 10), engagement_harmony)))

MetricsWithoutEmptyGuard(graph, history, user1_id, user2_id, t) ==
    [interaction_frequency |->
         Frac(Len(get_recent_interactions(history, user1_id, user2_id, t)), WindowDays),
     relationship_strength |-> calculate_relationship_strength(graph, user1_id, user2_id)]

\* 0.0 / 0.0
NaN == <<0, 0>>

\* the slope np.polyfit(np.arange(n), ys, 1) fits to n >= 2 points
LeastSquaresSlope(ys) ==
    LET n == Len(ys)
        xbar == Frac(n - 1, 2)
        ybar == FMean(ys)
        dx(i) == FSub(FInt(i - 1), xbar)
    IN  FDiv(FSum([i \in 1..n |-> FMul(dx(i), FSub(ys[i], ybar))]),
             FSum([i \in 1..n |-> FMul(dx(i), dx(i))]))

\* np.polyfit on the single point x = 0 divides the zero column of the
\* Vandermonde matrix by its zero norm and hands a nan to the least-squares
\* solver, which raises LinAlgError (SVD did not converge) or, where the
\* LAPACK build lets nan through, answers nan.
PolyfitOutcomes(interactions) ==
    IF Len(interactions) = 1 THEN {"LinAlgError", "nan"} ELSE {"fitted"}

\* sentiments[-1]
sentiment_current(interactions) == interactions[Len(interactions)].sentiment_score

\* trend and current; the volatility (a standard deviation) is derived from
\* the same sentiments
calculate_sentiment_trend(interactions) ==
    IF interactions = <<>> THEN [trend |-> FInt(0), current |-> FInt(0)]
    ELSE [trend |-> IF Len(interactions) = 1 THEN NaN
                    ELSE LeastSquaresSlope([i \in 1..Len(interactions) |->
                                               interactions[i].sentiment_score]),
          current |-> sentiment_current(interactions)]

\* x / 0.0 for x > 0
Inf == <<1, 0>>

RECURSIVE GcdSeq(_)
GcdSeq(xs) == IF xs = <<>> THEN 0 ELSE GCD(Abs(Head(xs)), GcdSeq(Tail(xs)))

\* np.std(xs) ** 2 of whole numbers
Variance(xs) ==
    LET mean == Frac(SumSeq(xs), Len(xs))
    IN  FDiv(FSum([i \in 1..Len(xs) |->
                      FMul(FSub(FInt(xs[i]), mean), FSub(FInt(xs[i]), mean))]),
             FInt(Len(xs)))

\* (np.std(xs) / np.mean(xs)) ** 2 of whole numbers of seconds.  The quotient
\* does not change when all xs are divided by their common divisor.  numpy
\* divides by a zero mean without raising: 0 / 0 is nan and x / 0 is inf.
StdevOverMeanSquared(xs) ==
    LET g == GcdSeq(xs)
        scaled == [i \in 1..Len(xs) |-> xs[i] \div g]
        mean == Frac(SumSeq(scaled), Len(scaled))
    IN  IF g = 0 THEN NaN
        ELSE IF mean = FInt(0) THEN Inf
        ELSE FDiv(Variance(scaled), FMul(mean, mean))

\* response_consistency is 1 - stdev / mean; it is carried as the mean and the
\* square of stdev / mean.
analyze_response_patterns(interactions) ==
    IF Len(interactions) < 2 THEN EmptyMap
    ELSE LET response_times ==
                 [i \in 1..(Len(interactions) - 1) |->
                     interactions[i + 1].timestamp - interactions[i].timestamp]
         IN  [avg_response_time |-> Frac(SumSeq(response_times), Len(response_times)),
              response_consistency |->
                  [mean |-> Frac(SumSeq(response_times), Len(response_times)),
                   stdev_over_mean_squared |-> StdevOverMeanSquared(response_times)]]

\* The metrics returned when polyfit does not raise.  engagement_quality is
\* computed from the same recent interactions and changes no state.
calculate_relationship_metrics(graph, history, user1_id, user2_id, t) ==
    LET recent_interactions == get_recent_interactions(history, user1_id, user2_id, t)
    IN  IF recent_interactions = <<>> THEN EmptyMap
        ELSE [interaction_frequency |-> Frac(Len(recent_interactions), WindowDays),
              sentiment_trend |-> calculate_sentiment_trend(recent_interactions),
              response_patterns |-> analyze_response_patterns(recent_interactions),
              relationship_strength |->
                  calculate_relationship_strength(graph, user1_id, user2_id)]

\* what a call of calculate_relationship_metrics hands back: the metrics, or
\* the exception of polyfit
MetricsResult(graph, history, user1_id, user2_id, t, outcome) ==
    IF outcome = "LinAlgError" THEN [error |-> "LinAlgError"]
    ELSE calculate_relationship_metrics(graph, history, user1_id, user2_id, t)

\* a call of calculate_relationship_metrics by itself: a query
relationship_metrics_query(user1_id, user2_id) ==
    /\ \E outcome \in PolyfitOutcomes(get_recent_interactions(
                                        interaction_history, user1_id, user2_id, now)) :
          last_call' = [op |-> "calculate_relationship_metrics",
                        args |-> <<user1_id, user2_id>>,
                        result |-> MetricsResult(interaction_graph, interaction_history,
                                                 user1_id, user2_id, now, outcome)]
    /\ UNCHANGED graph_vars

track_interaction(sender_id, receiver_id, message_content) ==
    LET event == InteractionEvent(sender_id, receiver_id, message_content, now)
    IN  /\ interaction_history' = append_history(interaction_history, event)
        /\ interaction_graph' = update_graph(interaction_graph, event)
        /\ \E outcome \in PolyfitOutcomes(get_recent_interactions(
                                  interaction_history', sender_id, receiver_id, now)) :
              last_call' = [op |-> "track_interaction",
                            args |-> <<sender_id, receiver_id>>,
                            result |-> MetricsResult(interaction_graph',
                                                     interaction_history',
                                                     sender_id, receiver_id, now, outcome)]

(***************************************************************************)
(* RelationshipAnalyzer (src/src/core/relationship/relationship_analyzer.py)*)
(* over UserProfile.relationships (src/src/models/user.py).                 *)
(***************************************************************************)
\* Relationship.interaction_metrics as constructed
DefaultMetrics ==
    [conversation_count |-> 0, average_sentiment |-> FInt(0), trust_score |-> FInt(0),
     communication_quality |-> FInt(0), response_time |-> FInt(0)]

Relationship(related_user_id, metrics) ==
    [related_user_id |-> related_user_id, relation_type |-> "social",
     interaction_metrics |-> metrics]

\* interaction_data dictionaries: empty, every field 1, every field 1/2, and a
\* partial one with a negative sentiment
TrustSignals ==
    { EmptyMap,
      [sentiment |-> FInt(1), response_time_score |-> FInt(1),
       sentiment_consistency |-> FInt(1), engagement_level |-> FInt(1),
       message_clarity |-> FInt(1), response_relevance |-> FInt(1),
       emotional_alignment |-> FInt(1)],
      [sentiment |-> Frac(1, 2), response_time_score |-> Frac(1, 2),
       sentiment_consistency |-> Frac(1, 2), engagement_level |-> Frac(1, 2),
       message_clarity |-> Frac(1, 2), response_relevance |-> Frac(1, 2),
       emotional_alignment |-> Frac(1, 2)],
      [sentiment |-> FInt(0 - 1), response_time_score |-> FInt(1),
       engagement_level |-> Frac(1, 2), message_clarity |-> FInt(1)] }

TrustScoreOverweighted(current_score, interaction_data) ==
    LET new_score ==
            FAdd(FMul(Get(interaction_data, "response_time_score", FInt(0)), Frac(3, 10)),
                 FAdd(FMul(Get(interaction_data, "sentiment_consistency", FInt(0)), Frac(3, 10)),
                      FMul(Get(interaction_data, "engagement_level", FInt(0)), Frac(4, 10))))
    IN  FAdd(FMul(Frac(9, 10), current_score), FMul(Frac(2, 10), new_score))

calculate_trust_score(current_score, interaction_data) ==
    LET new_score ==
            FAdd(FMul(Get(interaction_data, "response_time_score", FInt(0)), Frac(3, 10)),
                 FAdd(FMul(Get(interaction_data, "sentiment_consistency", FInt(0)), Frac(3, 10)),
                      FMul(Get(interaction_data, "engagement_level", FInt(0)), Frac(4, 10))))
    IN  FAdd(FMul(Frac(9, 10), current_score), FMul(Frac(1, 10), new_score))

calculate_communication_quality(interaction_data) ==
    FAdd(FMul(Get(interaction_data, "message_clarity", FInt(0)), Frac(3, 10)),
         FAdd(FMul(Get(interaction_data, "response_relevance", FInt(0)), Frac(3, 10)),
              FMul(Get(interaction_data, "emotional_alignment", FInt(0)), Frac(4, 10))))

\* communication_quality blended with its previous value, as trust_score is
UpdatedMetricsBlendingQuality(metrics, interaction_data) ==
    [metrics EXCEPT
        !.conversation_count = @ + 1,
        !.average_sentiment =
            FAdd(FMul(Frac(8, 10), @),
                 FMul(Frac(2, 10), Get(interaction_data, "sentiment", FInt(0)))),
        !.trust_score = calculate_trust_score(@, interaction_data),
        !.communication_quality =
            FAdd(FMul(Frac(9, 10), @),
                 FMul(Frac(1, 10), calculate_communication_quality(interaction_data)))]

updated_metrics(metrics, interaction_data) ==
    [metrics EXCEPT
        !.conversation_count = @ + 1,
        !.average_sentiment =
            FAdd(FMul(Frac(8, 10), @),
                 FMul(Frac(2, 10), Get(interaction_data, "sentiment", FInt(0)))),
        !.trust_score = calculate_trust_score(@, interaction_data),
        !.communication_quality = calculate_communication_quality(interaction_data)]

update_relationship_metrics(owner, related_user_id, interaction_data) ==
    IF owner \in DOMAIN relationships /\ related_user_id \in DOMAIN relationships[owner]
    THEN LET metrics == updated_metrics(
                            relationships[owner][related_user_id].interaction_metrics,
                            interaction_data)
         IN  /\ relationships' =
                   [relationships EXCEPT
                       ![owner][related_user_id].interaction_metrics = metrics]
             /\ last_call' = [op |-> "update_relationship_metrics",
                              args |-> <<owner, related_user_id>>, result |-> metrics]
    ELSE /\ last_call' = [op |-> "update_relationship_metrics",
                          args |-> <<owner, related_user_id>>, result |-> EmptyMap]
         /\ UNCHANGED relationships

(***************************************************************************)
(* IntegratedAnalyzer (src/src/core/analyzer/integrated_analyzer.py)       *)
(*                                                                         *)
(* process_conversation builds three coroutines and awaits                 *)
(* asyncio.gather on the three: each becomes a task of the event loop.     *)
(* A task runs atomically up to its next suspension: the metrics task      *)
(* suspends once, in conversation_analyzer.analyze_sentiment_flow; the     *)
(* relationship task and the cognitive task never suspend.  gather returns *)
(* the results when all three are done, and raises the first exception as  *)
(* soon as one task fails; it does not cancel the other tasks.             *)
(* A message text is modelled by its length, all the code reads of it.     *)
(***************************************************************************)
OrchUsers == {1, 2, 3}

Msg(user_id, text_length, timestamp) ==
    [user_id |-> user_id, text_length |-> text_length, timestamp |-> timestamp]

\* conversation_data dictionaries.  signals holds the already-scored text
\* signals of the participants who wrote something.
ConversationSamples ==
    { [conversation_id |-> "c1", participants |-> <<1, 2, 3>>,
       messages |-> <<Msg(1, 4, 0), Msg(2, 20, 60), Msg(3, 6, 90)>>,
       signals |-> [q \in {1, 2, 3} |->
                      [sentiment |-> Frac(1, 2), engagement |-> FInt(1),
                       response_time |-> FInt(30)]]],
      [conversation_id |-> "c1", participants |-> <<1, 2, 3>>,
       messages |-> <<Msg(1, 12, 0), Msg(2, 30, 30)>>,
       signals |-> [q \in {1, 2} |-> [sentiment |-> FInt(0 - 1)]]],
      [conversation_id |-> "c2", participants |-> <<2, 1>>,
       messages |-> <<Msg(2, 8, 0), Msg(1, 8, 10)>>,
       signals |-> [q \in {1, 2} |-> EmptyMap]],
      [conversation_id |-> "c2", participants |-> <<2>>,
       messages |-> <<Msg(2, 4, 0)>>,
       signals |-> [q \in {2} |-> EmptyMap]] }

UserContexts == {[user_id |-> 1], [user_id |-> 2]}

\* the calls made: a conversation and the primary user, one of its participants
ProcessInputs ==
    {in \in ConversationSamples \X UserContexts :
        (in[1].conversation_id = "c1") = (in[2].user_id = 1)}

AnalysisContext(conversation_data, user_context) ==
    [user_id |-> user_context.user_id,
     conversation_id |-> conversation_data.conversation_id,
     participants |-> conversation_data.participants]

Senders(messages) == {messages[i].user_id : i \in 1..Len(messages)}

\* the response times of user_id: the gaps to the previous message of another user
ResponseTimesOf(messages, user_id) ==
    LET idx == {i \in 2..Len(messages) :
                    /\ messages[i].user_id = user_id
                    /\ messages[i - 1].user_id # user_id}
        nth(k) == CHOOSE i \in idx : Cardinality({j \in idx : j < i}) = k - 1
    IN  [k \in 1..Cardinality(idx) |->
            messages[nth(k)].timestamp - messages[nth(k) - 1].timestamp]

calculate_engagement_metrics(messages) ==
    [user_id \in Senders(messages) |->
        LET own == SelectSeq(messages, LAMBDA m : m.user_id = user_id)
            total_length == SumSeq([i \in 1..Len(own) |-> own[i].text_length])
            response_times == ResponseTimesOf(messages, user_id)
        IN  [message_count |-> Len(own),
             total_length |-> total_length,
             response_times |-> response_times,
             avg_message_length |-> Frac(total_length, Len(own)),
             avg_response_time |->
                 IF response_times # <<>>
                 THEN Frac(SumSeq(response_times), Len(response_times))
                 ELSE FInt(0)]]

\* lines 63-72, for a non-empty message list
conversation_metrics(messages) ==
    [message_count |-> Len(messages),
     avg_message_length |->
         Frac(SumSeq([i \in 1..Len(messages) |-> messages[i].text_length]), Len(messages)),
     conversation_duration |-> messages[Len(messages)].timestamp - messages[1].timestamp,
     participant_engagement |-> calculate_engagement_metrics(messages)]

\* what analyze_sentiment_flow answers (an external collaborator)
SentimentMetrics == [sentiment_flow |-> "scored"]

\* metrics.update(sentiment_metrics)
MergeDict(a, b) ==
    [k \in DOMAIN a \cup DOMAIN b |-> IF k \in DOMAIN b THEN b[k] ELSE a[k]]

\* what the text-analysis collaborator answers for the primary user's messages
CognitiveMetrics ==
    [vocabulary_complexity |-> "scored", logical_coherence |-> "scored",
     response_sophistication |-> "scored"]

\* _extract_interaction_data is called but not defined in the repository.  From
\* the spec: the interaction signal of the participant, derived from the
\* conversation's already-scored text signals; None when there is none.
extract_interaction_data(conversation_data, primary_user, participant) ==
    IF participant \in DOMAIN conversation_data.signals
    THEN [present |-> TRUE, content |-> conversation_data.signals[participant]]
    ELSE [present |-> FALSE, content |-> EmptyMap]

\* _update_relationship_metrics from participant number i on.  message_content
\* None makes track_interaction raise at its first .get, before it changes
\* anything; what the earlier iterations tracked stays.
\* track_interaction itself raises, after it has appended the event and updated
\* the edge, when polyfit raises on a single recent interaction.
RECURSIVE update_relationship_metrics_from(_, _, _, _, _, _, _)
update_relationship_metrics_from(graph, history, updates, conversation_data, context, i, polyfit_raises) ==
    IF i > Len(context.participants)
    THEN [graph |-> graph, history |-> history, updates |-> updates, ok |-> TRUE]
    ELSE LET participant == context.participants[i]
             primary_user == context.user_id
         IN  IF participant = primary_user
             THEN update_relationship_metrics_from(graph, history, updates,
                                                   conversation_data, context, i + 1,
                                                   polyfit_raises)
             ELSE LET interaction_data ==
                          extract_interaction_data(conversation_data, primary_user, participant)
                      event == InteractionEvent(primary_user, participant,
                                                interaction_data.content, now)
                      history2 == append_history(history, event)
                      graph2 == update_graph(graph, event)
                      recent == get_recent_interactions(history2, primary_user,
                                                        participant, now)
                  IN  IF ~interaction_data.present
                      THEN [graph |-> graph, history |-> history, updates |-> updates,
                            ok |-> FALSE]
                      ELSE IF polyfit_raises /\ "LinAlgError" \in PolyfitOutcomes(recent)
                      THEN [graph |-> graph2, history |-> history2, updates |-> updates,
                            ok |-> FALSE]
                      ELSE update_relationship_metrics_from(
                               graph2, history2,
                               MapPut(updates, participant,
                                      calculate_relationship_metrics(
                                          graph2, history2, primary_user, participant, now)),
                               conversation_data, context, i + 1, polyfit_raises)

\* _combine_analysis_results is called but not defined in the repository.  The
\* merged report; generate_analysis_report reads its conversation_metrics and
\* relationship_updates.
combine_analysis_results(results, context) ==
    [conversation_metrics |-> results[1],
     relationship_updates |-> results[2],
     cognitive_indicators |-> results[3]]

\* a task of the gather: pending, awaiting (suspended), done or failed
PendingTask == [status |-> "pending", result |-> EmptyMap]
TaskNames == {"metrics", "relationships", "cognitive"}

Finished(task) == task.status \in {"done", "failed"}
AnyFailed(call) == \E n \in TaskNames : call.tasks[n].status = "failed"
AllFinished(call) == \A n \in TaskNames : Finished(call.tasks[n])

\* gather hands back the result list when no task has failed and all are done
GatherReadyPartial(call) == AllFinished(call)
gather_ready(call) == \A n \in TaskNames : call.tasks[n].status = "done"

\* a call that is over and whose tasks have all finished holds no result any more
Settle(d, c) ==
    IF d[c].state # "gathering" /\ AllFinished(d[c])
    THEN [d EXCEPT ![c].tasks =
              [n \in TaskNames |-> [status |-> d[c].tasks[n].status, result |-> EmptyMap]]]
    ELSE d

SetTask(c, name, task) ==
    Settle([calls EXCEPT ![c].tasks[name] = task], c)

\* gather makes the three coroutines tasks, in the order of the list: their
\* first steps are queued one behind the other on the event loop, so that
\* nothing else runs between the first step of the metrics task and the (only)
\* step of the cognitive task.
MidBlock(call) ==
    /\ call.tasks["metrics"].status # "pending"
    /\ call.tasks["cognitive"].status = "pending"

BlockRunning == \E d \in DOMAIN calls : MidBlock(calls[d])

\* process_conversation up to the gather: the context and the three tasks
process_conversation(c, conversation_data, user_context) ==
    /\ c \notin DOMAIN calls
    /\ ~BlockRunning
    /\ calls' = MapPut(calls, c,
                   [conversation_data |-> conversation_data,
                    context |-> AnalysisContext(conversation_data, user_context),
                    state |-> "gathering",
                    tasks |-> [n \in TaskNames |-> PendingTask]])
    /\ last_call' = [op |-> "process_conversation",
                     args |-> <<conversation_data.conversation_id, user_context.user_id>>,
                     result |-> "gathering"]
    /\ UNCHANGED <<analysis_cache, graph_vars>>

\* _analyze_conversation_metrics up to its await
analyze_conversation_metrics(c) ==
    /\ c \in DOMAIN calls
    /\ calls[c].tasks["metrics"].status = "pending"
    /\ ~BlockRunning
    /\ calls' = SetTask(c, "metrics",
                   [status |-> "awaiting",
                    result |-> conversation_metrics(calls[c].conversation_data.messages)])
    /\ last_call' = [op |-> "_analyze_conversation_metrics",
                     args |-> <<calls[c].context.conversation_id>>, result |-> "awaiting"]
    /\ UNCHANGED <<analysis_cache, graph_vars>>

\* analyze_sentiment_flow answers, or raises
sentiment_flow_returns(c, ok) ==
    /\ c \in DOMAIN calls
    /\ calls[c].tasks["metrics"].status = "awaiting"
    /\ ~BlockRunning
    /\ calls' = SetTask(c, "metrics",
                   IF ok
                   THEN [status |-> "done",
                         result |-> MergeDict(calls[c].tasks["metrics"].result,
                                              SentimentMetrics)]
                   ELSE [status |-> "failed", result |-> EmptyMap])
    /\ last_call' = [op |-> "analyze_sentiment_flow",
                     args |-> <<calls[c].context.conversation_id>>,
                     result |-> IF ok THEN "done" ELSE "failed"]
    /\ UNCHANGED <<analysis_cache, graph_vars>>

\* _update_relationship_metrics, whole: it never suspends
update_relationships_task(c) ==
    /\ c \in DOMAIN calls
    /\ calls[c].tasks["relationships"].status = "pending"
    /\ calls[c].tasks["metrics"].status # "pending"
    /\ \E polyfit_raises \in BOOLEAN :
       LET run == update_relationship_metrics_from(
                      interaction_graph, interaction_history, EmptyMap,
                      calls[c].conversation_data, calls[c].context, 1, polyfit_raises)
       IN  /\ interaction_graph' = run.graph
           /\ interaction_history' = run.history
           /\ calls' = SetTask(c, "relationships",
                          IF run.ok
                          THEN [status |-> "done", result |-> run.updates]
                          ELSE [status |-> "failed", result |-> EmptyMap])
           /\ last_call' = [op |-> "_update_relationship_metrics",
                            args |-> <<calls[c].context.conversation_id,
                                       calls[c].context.user_id>>,
                            result |-> IF run.ok THEN "done" ELSE "failed"]
    /\ UNCHANGED analysis_cache

\* _analyze_cognitive_indicators, whole: the text analysis answers, or raises
analyze_cognitive_indicators(c, ok) ==
    /\ c \in DOMAIN calls
    /\ calls[c].tasks["cognitive"].status = "pending"
    /\ calls[c].tasks["relationships"].status # "pending"
    /\ calls' = SetTask(c, "cognitive",
                   IF ok
                   THEN [status |-> "done", result |-> CognitiveMetrics]
                   ELSE [status |-> "failed", result |-> EmptyMap])
    /\ last_call' = [op |-> "_analyze_cognitive_indicators",
                     args |-> <<calls[c].context.conversation_id>>,
                     result |-> IF ok THEN "done" ELSE "failed"]
    /\ UNCHANGED <<analysis_cache, graph_vars>>

\* the gather returns: the results are merged and cached, the report returned
gather_returns(c) ==
    /\ c \in DOMAIN calls
    /\ calls[c].state = "gathering"
    /\ ~BlockRunning
    /\ gather_ready(calls[c])
    /\ LET results == <<calls[c].tasks["metrics"].result,
                        calls[c].tasks["relationships"].result,
                        calls[c].tasks["cognitive"].result>>
           combined_analysis == combine_analysis_results(results, calls[c].context)
       IN  /\ analysis_cache' = MapPut(analysis_cache, calls[c].context.conversation_id,
                                       combined_analysis)
           /\ last_call' = [op |-> "process_conversation",
                            args |-> <<calls[c].context.conversation_id,
                                       calls[c].context.user_id>>,
                            result |-> "returned"]
    /\ calls' = Settle([calls EXCEPT ![c].state = "returned"], c)
    /\ UNCHANGED graph_vars

\* the gather raises the exception of a failed task; process_conversation logs
\* it and raises it again
gather_raises(c) ==
    /\ c \in DOMAIN calls
    /\ calls[c].state = "gathering"
    /\ ~BlockRunning
    /\ AnyFailed(calls[c])
    /\ calls' = Settle([calls EXCEPT ![c].state = "raised"], c)
    /\ last_call' = [op |-> "process_conversation",
                     args |-> <<calls[c].context.conversation_id,
                                calls[c].context.user_id>>,
                     result |-> "raised"]
    /\ UNCHANGED <<analysis_cache, graph_vars>>

(***************************************************************************)
(* generate_analysis_report (lines 225-250) looks the conversation up in   *)
(* the cache and suspends once, in visualizer.create_relationship_dashboard;*)
(* when that answers, the summary and the recommendations are computed.    *)
(***************************************************************************)
ReportNotFound == [error |-> "Conversation analysis not found"]

\* _extract_main_findings, _summarize_key_metrics and _summarize_relationships
\* are called but not defined in the repository: a summary with the three parts
generate_summary(analysis) ==
    [main_findings |-> "findings", key_metrics |-> "metrics",
     relationship_insights |-> "insights"]

CommunicationSuggestion == [category |-> "communication", participant_id |-> 0]
RelationshipSuggestion(participant_id) ==
    [category |-> "relationship", participant_id |-> participant_id]

\* _generate_recommendations: rel_metrics['trust_score'] raises KeyError for
\* metrics that have no trust_score.  The list is carried as a set.
generate_recommendations(analysis) ==
    LET metrics == analysis.conversation_metrics
        relationship_data == analysis.relationship_updates
    IN  IF \E participant_id \in DOMAIN relationship_data :
               "trust_score" \notin DOMAIN relationship_data[participant_id]
        THEN [error |-> "KeyError"]
        ELSE [error |-> "",
              recommendations |->
                  (IF FLess(metrics.avg_message_length, FInt(10))
                   THEN {CommunicationSuggestion} ELSE {})
                  \cup {RelationshipSuggestion(participant_id) :
                            participant_id \in
                                {q \in DOMAIN relationship_data :
                                    FLess(relationship_data[q].trust_score, Frac(1, 2))}}]

ReportRendersUncached(r, conversation_id, user_id) ==
    /\ r \notin DOMAIN reports
    /\ ~BlockRunning
    /\ reports' = MapPut(reports, r,
                     [conversation_id |-> conversation_id, user_id |-> user_id,
                      analysis |-> Get(analysis_cache, conversation_id, EmptyMap),
                      state |-> "rendering"])
    /\ last_call' = [op |-> "generate_analysis_report",
                     args |-> <<conversation_id, user_id>>,
                     result |-> IF conversation_id \in DOMAIN analysis_cache
                                THEN [error |-> "", state |-> "rendering"]
                                ELSE ReportNotFound]
    /\ UNCHANGED <<analysis_cache, calls, graph_vars>>

\* generate_analysis_report up to its await
generate_analysis_report(r, conversation_id, user_id) ==
    /\ r \notin DOMAIN reports
    /\ ~BlockRunning
    /\ IF conversation_id \notin DOMAIN analysis_cache
       THEN /\ last_call' = [op |-> "generate_analysis_report",
                             args |-> <<conversation_id, user_id>>,
                             result |-> ReportNotFound]
            /\ UNCHANGED reports
       ELSE /\ reports' = MapPut(reports, r,
                             [conversation_id |-> conversation_id, user_id |-> user_id,
                              analysis |-> analysis_cache[conversation_id],
                              state |-> "rendering"])
            /\ last_call' = [op |-> "generate_analysis_report",
                             args |-> <<conversation_id, user_id>>,
                             result |-> [error |-> "", state |-> "rendering"]]
    /\ UNCHANGED <<analysis_cache, calls, graph_vars>>

\* create_relationship_dashboard answers, or raises; the report is built
create_relationship_dashboard_returns(r, ok) ==
    /\ r \in DOMAIN reports
    /\ reports[r].state = "rendering"
    /\ ~BlockRunning
    /\ LET analysis == reports[r].analysis
           recommendations == generate_recommendations(analysis)
           result == IF ~ok THEN [error |-> "VisualizerError"]
                     ELSE IF recommendations.error # "" THEN recommendations
                     ELSE [error |-> "",
                           summary |-> generate_summary(analysis),
                           detailed_metrics |-> analysis,
                           visualization |-> "buffer",
                           recommendations |-> recommendations.recommendations]
       IN  /\ reports' = [reports EXCEPT ![r].state =
                              IF result.error = "" THEN "returned" ELSE "raised"]
           /\ last_call' = [op |-> "create_relationship_dashboard",
                            args |-> <<reports[r].conversation_id, reports[r].user_id>>,
                            result |-> result]
    /\ UNCHANGED <<analysis_cache, calls, graph_vars>>

(***************************************************************************)
(* The state after construction.                                           *)
(***************************************************************************)
NoCall == [op |-> "init", args |-> <<>>, result |-> None]

InitAssessment ==
    /\ current_difficulty = InitialDifficulty
    /\ response_history = EmptyMap
    /\ scored = [u \in UserIds |-> 0]

InitSessions ==
    /\ active_conversations = EmptyMap
    /\ recorded = [c \in ConversationIds |-> <<>>]
    /\ analysis_pending = 0
    /\ evicted = {}

InitGraph ==
    /\ interaction_graph = EmptyMap
    /\ interaction_history = EmptyMap

InitOrchestrator ==
    /\ analysis_cache = EmptyMap
    /\ calls = EmptyMap
    /\ reports = EmptyMap

InitClock ==
    /\ now = 0
    /\ last_call = NoCall

\* no profile exists
Init ==
    /\ InitAssessment
    /\ InitSessions
    /\ InitGraph
    /\ relationships = EmptyMap
    /\ InitOrchestrator
    /\ InitClock

(***************************************************************************)
(* SpecAssess: any question/answer cycles of two users, MaxResponses scored *)
(* responses in all.  SpecStreak: every user repeats one response (the same *)
(* question, correctness and speed); one user goes on up to MaxStreak       *)
(* responses, which reaches the completion threshold and both ends of the   *)
(* difficulty range, while the others have at most MaxInterleaved.          *)
(***************************************************************************)
MaxResponses == 3
MaxStreak == 21
MaxInterleaved == 1

HistoryLen(u) == IF u \in DOMAIN response_history THEN Len(response_history[u]) ELSE 0

TotalResponses == SumOver(UserIds, [u \in UserIds |-> HistoryLen(u)])

NextQuestionStep ==
    \E u \in UserIds :
        /\ get_next_question(u)
        /\ UNCHANGED <<session_vars, graph_vars, trust_vars, orch_vars, now>>

ResponseStep ==
    /\ TotalResponses < MaxResponses
    /\ \E u \in UserIds, question_id \in QuestionIds, answer \in Answers,
          response_time \in ResponseTimes :
        /\ process_response(u, question_id, answer, response_time)
        /\ UNCHANGED <<session_vars, graph_vars, trust_vars, orch_vars, now>>

\* the response repeats the user's previous one
ContinuesStreak(u, question_id, answer, response_time) ==
    IF HistoryLen(u) = 0 THEN TRUE
    ELSE LET prev == response_history[u][Len(response_history[u])]
             question == find_question(question_id)
         IN  /\ prev.question_id = question_id
             /\ prev.correct = (answer = question.correct_answer)
             /\ prev.time_factor = time_factor(question, response_time)

StreakStep ==
    \E u \in UserIds, question_id \in QuestionIds, answer \in Answers,
       response_time \in ResponseTimes :
        /\ HistoryLen(u) < MaxStreak
        /\ \A v \in UserIds \ {u} : HistoryLen(v) <= MaxInterleaved
        /\ ContinuesStreak(u, question_id, answer, response_time)
        /\ process_response(u, question_id, answer, response_time)
        /\ UNCHANGED <<session_vars, graph_vars, trust_vars, orch_vars, now>>

FinalScoreStep ==
    \E u \in UserIds :
        /\ calculate_final_iq(u)
        /\ UNCHANGED <<session_vars, graph_vars, trust_vars, orch_vars, now>>

NextAssess == NextQuestionStep \/ ResponseStep \/ FinalScoreStep
SpecAssess == Init /\ [][NextAssess]_vars

NextStreak == NextQuestionStep \/ StreakStep
SpecStreak == Init /\ [][NextStreak]_vars

\* SpecWindow: one user answers up to MaxWindow questions, right or wrong,
\* at once or within the time limit, after asking for a first question.
MaxWindow == 4
WindowTimes == {0, 30}

FirstQuestionStep ==
    \E u \in UserIds :
        /\ u \notin DOMAIN response_history
        /\ get_next_question(u)
        /\ UNCHANGED <<session_vars, graph_vars, trust_vars, orch_vars, now>>

WindowStep ==
    \E question_id \in QuestionIds, answer \in Answers, response_time \in WindowTimes :
        /\ HistoryLen(1) < MaxWindow
        /\ process_response(1, question_id, answer, response_time)
        /\ UNCHANGED <<session_vars, graph_vars, trust_vars, orch_vars, now>>

NextWindow == FirstQuestionStep \/ WindowStep \/ FinalScoreStep
SpecWindow == Init /\ [][NextWindow]_vars

(***************************************************************************)
(* Claims about the assessment.                                            *)
(***************************************************************************)
\* The difficulty get_next_question(v) filters with, and the questions it may return.
DifficultyOf(v) == current_difficulty

NextQuestionSet(v) ==
    UNION {{q.id : q \in suitable_questions(c, DifficultyOf(v),
                     IF v \in DOMAIN response_history THEN response_history[v] ELSE <<>>)} :
           c \in select_category(<<>>)}

\* C1: a response scored for user u changes only u's difficulty and history; for
\* every other user v the difficulty, and the set of questions get_next_question(v)
\* may return, stay as they were.
C1_DifficultyPerUser ==
    [][\A u \in UserIds :
          scored'[u] = scored[u] + 1 =>
              \A v \in UserIds \ {u} :
                  /\ DifficultyOf(v)' = DifficultyOf(v)
                  /\ NextQuestionSet(v)' = NextQuestionSet(v)]_vars

\* C2: in every reachable state, after any sequence of scored responses,
\* current_difficulty lies in [0.2, 0.95].
C2_DifficultyInRange ==
    /\ current_difficulty >= DifficultyFloor
    /\ current_difficulty <= DifficultyCap

\* a streak of at least six correct answers of one user, nobody else answering:
\* the fifth and sixth raises were cut at the cap
C2_CapReached ==
    \E u \in UserIds :
        /\ HistoryLen(u) >= 6
        /\ \A i \in 1..HistoryLen(u) : response_history[u][i].correct
        /\ \A v \in UserIds \ {u} : HistoryLen(v) = 0
        /\ current_difficulty = DifficultyCap

\* C3: the k-th successfully scored response of a user reports complete exactly
\* when k >= 20.
C3_CompleteAtTwenty ==
    (last_call.op = "process_response" /\ last_call.result.error = "") =>
        (last_call.result.complete <=> scored[last_call.args[1]] >= CompleteThreshold)

C3_TwentiethResponse ==
    /\ last_call.op = "process_response"
    /\ last_call.result.error = ""
    /\ last_call.result.complete
    /\ scored[last_call.args[1]] = CompleteThreshold

\* C4: get_next_question(u) never returns a question that u's history already
\* holds a response to.
C4_NoAnsweredQuestionAgain ==
    (last_call.op = "get_next_question" /\ last_call.result # None) =>
        last_call.result \notin AnsweredIds(response_history[last_call.args[1]])

\* L1 is answered and still within reach of the difficulty; P1 is returned
C4_OtherQuestionReturned ==
    /\ last_call.op = "get_next_question"
    /\ last_call.result = "P1"
    /\ "L1" \in AnsweredIds(response_history[last_call.args[1]])
    /\ NearDifficulty(500, current_difficulty)

\* C11: process_response with a question_id that is not in the question bank
\* answers "Question not found" and leaves every user's response history and
\* current_difficulty unchanged.
C11_UnknownQuestionChangesNothing ==
    [][(/\ last_call'.op = "process_response"
        /\ last_call'.args[2] \notin {q.id : q \in AllQuestions}) =>
           /\ last_call'.result.error = "Question not found"
           /\ response_history' = response_history
           /\ current_difficulty' = current_difficulty]_vars

\* an unknown id was sent for a user who has a history, after the difficulty moved
C11_UnknownAfterResponses ==
    /\ last_call.op = "process_response"
    /\ last_call.args[2] = "X9"
    /\ last_call.result.error = "Question not found"
    /\ HistoryLen(last_call.args[1]) >= 1
    /\ current_difficulty # InitialDifficulty

\* C12: calculate_final_iq answers "No test data found" whenever the user's
\* response history is empty: when the user is unknown, and when
\* get_next_question has created the user's empty history.
C12_EmptyHistoryIsNoData ==
    (last_call.op = "calculate_final_iq" /\ HistoryLen(last_call.args[1]) = 0) =>
        last_call.result.error = "No test data found"

\* The unanswered questions of the category get_next_question chose that lie
\* within reach: strictly less than one tenth from current_difficulty, or up to
\* one tenth, the boundary included.
Eligible(strict) ==
    LET u == last_call.args[1]
        category == last_call.args[2]
    IN  {q \in question_bank[category] :
            /\ IF strict
               THEN Abs(q.difficulty - current_difficulty) < DifficultyStep
               ELSE Abs(q.difficulty - current_difficulty) <= DifficultyStep
            /\ \A i \in 1..HistoryLen(u) : response_history[u][i].question_id # q.id}

\* C13 as stated: get_next_question returns only a question of the chosen
\* category whose difficulty differs from current_difficulty by less than 0.1
\* and whose id is not in the user's history, and returns no question exactly
\* when there is none.
C13_StrictlyWithinTenth ==
    last_call.op = "get_next_question" =>
        IF last_call.result = None
        THEN Eligible(TRUE) = {}
        ELSE last_call.result \in {q.id : q \in Eligible(TRUE)}

\* C13, amended: get_next_question returns only a question of the chosen
\* category whose id is not in the user's history and whose difficulty is at
\* most one tenth from current_difficulty, a question nominally exactly 0.1
\* away included (the double-precision difference is below 0.1); it returns no
\* question exactly when there is none.
C13_WithinTenthAsComputed ==
    last_call.op = "get_next_question" =>
        IF last_call.result = None
        THEN Eligible(FALSE) = {}
        ELSE last_call.result \in {q.id : q \in Eligible(FALSE)}

\* P1, of difficulty 0.6, is returned at current_difficulty 0.5
C13_BoundaryQuestionReturned ==
    /\ last_call.op = "get_next_question"
    /\ last_call.result = "P1"
    /\ current_difficulty = InitialDifficulty
    /\ HistoryLen(last_call.args[1]) = 0

\* the sum of the last k performance scores of a history
SumOfLast(history, k) ==
    SumSeq([i \in 1..k |-> history[Len(history) - k + i].performance_score])

\* C14: a scored response of user u sets current_difficulty from the mean m of
\* the performance scores of u's last 3 responses (all when fewer): m > 0.7
\* raises it by 0.1, capped at 0.95; m < 0.3 lowers it by 0.1, floored at 0.2;
\* otherwise it stays.  No other step changes current_difficulty.
C14_AdjustedByMeanOfLastThree ==
    [][IF \E u \in UserIds : scored'[u] # scored[u]
       THEN \A u \in UserIds :
               scored'[u] # scored[u] =>
                  LET h == response_history'[u]
                      k == IF Len(h) < 3 THEN Len(h) ELSE 3
                      total == SumOfLast(h, k)
                  IN  current_difficulty' =
                         IF total > 700 * k
                         THEN (IF current_difficulty + 100 > 950
                               THEN 950 ELSE current_difficulty + 100)
                         ELSE IF total < 300 * k
                         THEN (IF current_difficulty - 100 < 200
                               THEN 200 ELSE current_difficulty - 100)
                         ELSE current_difficulty
       ELSE current_difficulty' = current_difficulty]_vars

\* a correct answer followed by three wrong ones: the mean of the last three is
\* below 0.3 and lowered the difficulty, the mean of all four is not
C14_WindowSlid ==
    \E u \in UserIds :
        /\ HistoryLen(u) = 4
        /\ response_history[u][1].correct
        /\ \A i \in 2..4 : ~response_history[u][i].correct
        /\ SumOfLast(response_history[u], 3) < 300 * 3
        /\ SumOfLast(response_history[u], 4) >= 300 * 4
        /\ current_difficulty = 600
        /\ last_call.op = "process_response"

\* The state of a user's assessment: history length is its sole driver.
AssessmentState(history_of, u) ==
    IF u \notin DOMAIN history_of THEN "NotStarted"
    ELSE IF Len(history_of[u]) >= CompleteThreshold THEN "Complete"
    ELSE "InProgress"

StateRank(state) ==
    CASE state = "NotStarted" -> 0
      [] state = "InProgress" -> 1
      [] state = "Complete" -> 2

\* C28: a user's assessment goes NotStarted -> InProgress -> Complete and never
\* backwards.  The response history is append-only: its length never decreases
\* and the recorded entries never change.  Once a user is Complete every later
\* scored response of that user reports complete = TRUE.
C28_NeverBackwards ==
    [][\A u \in UserIds :
          /\ StateRank(AssessmentState(response_history', u))
                >= StateRank(AssessmentState(response_history, u))
          /\ u \in DOMAIN response_history =>
                /\ u \in DOMAIN response_history'
                /\ Len(response_history'[u]) >= Len(response_history[u])
                /\ SubSeq(response_history'[u], 1, Len(response_history[u]))
                      = response_history[u]
          /\ (/\ AssessmentState(response_history, u) = "Complete"
              /\ scored'[u] = scored[u] + 1)
             => /\ last_call'.op = "process_response"
                /\ last_call'.result.complete = TRUE]_vars

\* a response scored after the one that completed the assessment
C28_ScoredAfterComplete ==
    \E u \in DOMAIN response_history :
        /\ Len(response_history[u]) = CompleteThreshold + 1
        /\ last_call.op = "process_response"
        /\ last_call.args[1] = u
        /\ last_call.result.complete = TRUE

\* C35: process_response with a known question_id succeeds and appends the
\* response to the user's history for any user, a user for whom
\* get_next_question has never been called included.
C35_ScoredWithoutQuestion ==
    [][(/\ last_call'.op = "process_response"
        /\ find_question(last_call'.args[2]) # NoQuestion)
       => LET u == last_call'.args[1]
          IN  /\ last_call'.result.error = ""
              /\ u \in DOMAIN response_history'
              /\ Len(response_history'[u]) = HistoryLen(u) + 1
              /\ response_history'[u][HistoryLen(u) + 1].question_id = last_call'.args[2]]_vars

\* C37: in every reachable state a user's response history holds each
\* question_id at most once; a response to a question the user has already
\* answered adds no second entry.
C37_QuestionScoredOnce ==
    \A u \in DOMAIN response_history :
        \A i \in 1..Len(response_history[u]), j \in 1..Len(response_history[u]) :
            response_history[u][i].question_id = response_history[u][j].question_id
                => i = j

\* C40: a response scored as correct never lowers current_difficulty, whatever
\* the user's earlier responses and the response time.
C40_CorrectNeverLowers ==
    [][\A u \in UserIds :
          (/\ last_call'.op = "process_response"
           /\ last_call'.args[1] = u
           /\ scored'[u] = scored[u] + 1
           /\ response_history'[u][Len(response_history'[u])].correct)
          => current_difficulty' >= current_difficulty]_vars

\* a correct answer given in no time after two wrong ones that had lowered
\* the difficulty, which stays where it was
C40_CorrectAfterTwoWrong ==
    \E u \in DOMAIN response_history :
        /\ last_call.op = "process_response"
        /\ last_call.args[1] = u
        /\ Len(response_history[u]) = 3
        /\ ~response_history[u][1].correct
        /\ ~response_history[u][2].correct
        /\ response_history[u][3].correct
        /\ response_history[u][3].time_factor = 0
        /\ current_difficulty = InitialDifficulty - 2 * DifficultyStep

(***************************************************************************)
(* SpecSession: messages of two users in two conversations, the clock      *)
(* advancing in steps of TickSeconds, sweeps with either maximum age.      *)
(***************************************************************************)
MaxMessages == 3
MaxPending == 2
MaxTicks == 3

TotalMessages ==
    SumOver(DOMAIN active_conversations,
            [c \in DOMAIN active_conversations |-> Len(active_conversations[c].messages)])

Tick ==
    /\ now < MaxTicks * TickSeconds
    /\ now' = now + TickSeconds
    /\ last_call' = [op |-> "tick", args |-> <<>>, result |-> None]

RecordStep ==
    /\ TotalMessages < MaxMessages
    /\ analysis_pending < MaxPending
    /\ \E c \in ConversationIds, u \in UserIds, text \in Texts :
          process_message(Message(c, u, text))
    /\ UNCHANGED <<assess_vars, graph_vars, trust_vars, orch_vars, now>>

AnalysisStep ==
    /\ analyze_message_returns
    /\ UNCHANGED <<assess_vars, graph_vars, trust_vars, orch_vars, now>>

CleanupStep ==
    /\ \E max_age_hours \in MaxAgeHours : cleanup_old_conversations(max_age_hours)
    /\ UNCHANGED <<assess_vars, graph_vars, trust_vars, orch_vars, now>>

SessionTick ==
    /\ Tick
    /\ UNCHANGED <<assess_vars, session_vars, graph_vars, trust_vars, orch_vars>>

SummaryStep ==
    /\ \E conversation_id \in ConversationIds : get_conversation_summary(conversation_id)
    /\ UNCHANGED <<assess_vars, graph_vars, trust_vars, orch_vars, now>>

SessionMetricsStep ==
    /\ \E conversation_id \in ConversationIds : get_conversation_metrics(conversation_id)
    /\ UNCHANGED <<assess_vars, graph_vars, trust_vars, orch_vars, now>>

NextSession ==
    \/ RecordStep
    \/ AnalysisStep
    \/ CleanupStep
    \/ SessionTick
    \/ SummaryStep
    \/ SessionMetricsStep
SpecSession == Init /\ [][NextSession]_vars

(***************************************************************************)
(* Claims about the sessions.                                              *)
(***************************************************************************)
\* C7: a sweep with max_age at time t removes exactly the sessions whose age
\* t - last_update exceeds max_age and leaves every other session, one of age
\* exactly max_age included, present and unchanged.
C7_EvictExactlyExpired ==
    [][last_call'.op = "cleanup_old_conversations" =>
          /\ DOMAIN active_conversations' \subseteq DOMAIN active_conversations
          /\ \A c \in DOMAIN active_conversations :
                IF now - active_conversations[c].last_update
                       > last_call'.args[1] * SecondsPerHour
                THEN c \notin DOMAIN active_conversations'
                ELSE /\ c \in DOMAIN active_conversations'
                     /\ active_conversations'[c] = active_conversations[c]]_vars

\* a sweep removed a session and kept one whose age is exactly max_age
C7_SweptOneKeptBoundary ==
    /\ last_call.op = "cleanup_old_conversations"
    /\ last_call.result # {}
    /\ \E c \in DOMAIN active_conversations :
          now - active_conversations[c].last_update = last_call.args[1] * SecondsPerHour

\* C8: after any interleaving of records for a conversation id (no eviction of it
\* in between) the session exists, holds exactly the recorded events in arrival
\* order, its participants contain every sender and last_update is the time of
\* the latest record; only a record creates a session.
C8_RecordedInOrder ==
    \A c \in ConversationIds :
        IF recorded[c] = <<>>
        THEN c \notin DOMAIN active_conversations
        ELSE /\ c \in DOMAIN active_conversations
             /\ active_conversations[c].messages =
                    [i \in 1..Len(recorded[c]) |-> recorded[c][i].message]
             /\ \A i \in 1..Len(recorded[c]) :
                    recorded[c][i].message.user_id \in active_conversations[c].participants
             /\ active_conversations[c].last_update = recorded[c][Len(recorded[c])].at
             /\ active_conversations[c].start_time = recorded[c][1].at

\* a session holding three messages of both users recorded at different times,
\* two of the calls still suspended in analyze_message
C8_InterleavedRecords ==
    \E c \in DOMAIN active_conversations :
        LET m == active_conversations[c].messages
        IN  /\ Len(m) = 3
            /\ m[1].user_id # m[2].user_id
            /\ m[1].timestamp < m[3].timestamp
            /\ analysis_pending > 1

\* C16: a sweep interleaved with record calls stops no record from completing
\* (the calls suspended in the analysis stay in flight and can finish), removes
\* no session whose age is within max_age, and drops no message of a session
\* that survives it; a record after the sweep is stored like any other.
C16_SweepLeavesRecordsAlone ==
    [][/\ analysis_pending > 0 => ENABLED AnalysisStep
       /\ last_call'.op = "cleanup_old_conversations" =>
             /\ analysis_pending' = analysis_pending
             /\ \A c \in DOMAIN active_conversations :
                    now - active_conversations[c].last_update
                        <= last_call'.args[1] * SecondsPerHour
                    => c \in DOMAIN active_conversations'
             /\ \A c \in DOMAIN active_conversations' :
                    /\ c \in DOMAIN active_conversations
                    /\ active_conversations'[c].messages = active_conversations[c].messages
       /\ last_call'.op = "process_message" =>
             LET c == last_call'.args[1]
                 m == active_conversations'[c].messages
             IN  /\ m[Len(m)].user_id = last_call'.args[2]
                 /\ m[Len(m)].timestamp = now
                 /\ SubSeq(m, 1, Len(m) - 1) =
                       (IF c \in DOMAIN active_conversations
                        THEN active_conversations[c].messages ELSE <<>>)
                 /\ \A other \in DOMAIN active_conversations \ {c} :
                       /\ other \in DOMAIN active_conversations'
                       /\ active_conversations'[other] = active_conversations[other]]_vars

\* a sweep removed a session while two records were suspended in the analysis;
\* the surviving session holds its two messages
C16_SweptDuringRecords ==
    /\ last_call.op = "cleanup_old_conversations"
    /\ last_call.result # {}
    /\ analysis_pending = 2
    /\ \E c \in DOMAIN active_conversations : Len(active_conversations[c].messages) = 2

SessionQueries == {"get_conversation_summary", "get_conversation_metrics"}

\* C17: get_conversation_summary and get_conversation_metrics answer
\* "Conversation not found" for every id that was never recorded or was swept
\* and not recorded again, and a query creates no session and changes none.
C17_UnknownIdNotFound ==
    [][last_call'.op \in SessionQueries =>
          /\ active_conversations' = active_conversations
          /\ recorded[last_call'.args[1]] = <<>> =>
                last_call'.result = [error |-> "Conversation not found"]
          /\ recorded[last_call'.args[1]] # <<>> =>
                "error" \notin DOMAIN last_call'.result]_vars

\* the metrics of a swept id are asked for while another session is live
C17_SweptIdQueried ==
    /\ last_call.op = "get_conversation_metrics"
    /\ last_call.args[1] \in evicted
    /\ last_call.result = [error |-> "Conversation not found"]
    /\ DOMAIN active_conversations # {}

\* C18: the duration that get_conversation_summary and get_conversation_metrics
\* report for a session is last_update - start_time in seconds, whatever the
\* span, more than 24 hours included.
C18_DurationIsSpan ==
    (last_call.op \in SessionQueries
        /\ last_call.args[1] \in DOMAIN active_conversations) =>
        LET conversation == active_conversations[last_call.args[1]]
            span == conversation.last_update - conversation.start_time
        IN  IF last_call.op = "get_conversation_summary"
            THEN last_call.result.duration = span
            ELSE last_call.result.duration_seconds = span

\* C39: in every reachable session state the participant set is the set of
\* user_ids of the session's stored messages; the participant_count that
\* metrics reports is the number of distinct senders and the per-participant
\* message counts it reports sum to total_messages.
C39_ParticipantsAreSenders ==
    /\ \A c \in DOMAIN active_conversations :
          active_conversations[c].participants =
              {active_conversations[c].messages[i].user_id :
                  i \in 1..Len(active_conversations[c].messages)}
    /\ (last_call.op = "get_conversation_metrics"
           /\ "error" \notin DOMAIN last_call.result) =>
          LET messages == active_conversations[last_call.args[1]].messages
              counts == last_call.result.messages_per_participant
          IN  /\ last_call.result.participant_count =
                     Cardinality({messages[i].user_id : i \in 1..Len(messages)})
              /\ last_call.result.total_messages = Len(messages)
              /\ SumOver(DOMAIN counts, counts) = last_call.result.total_messages

\* metrics of a session with three messages of two senders
C39_TwoSendersThreeMessages ==
    /\ last_call.op = "get_conversation_metrics"
    /\ "error" \notin DOMAIN last_call.result
    /\ last_call.result.total_messages = 3
    /\ last_call.result.participant_count = 2
    /\ \E u \in DOMAIN last_call.result.messages_per_participant :
          last_call.result.messages_per_participant[u] = 2

(***************************************************************************)
(* SpecRate: messages of two users in the conversation "c1", the clock     *)
(* advancing by the minute; the metrics are asked for at any time.         *)
(***************************************************************************)
MaxRateMessages == 5
MaxRateTicks == 2
RateTickSeconds == 60

RateRecordStep ==
    /\ TotalMessages < MaxRateMessages
    /\ analysis_pending < MaxPending
    /\ \E u \in UserIds, text \in Texts : process_message(Message("c1", u, text))
    /\ UNCHANGED <<assess_vars, graph_vars, trust_vars, orch_vars, now>>

RateTick ==
    /\ now < MaxRateTicks * RateTickSeconds
    /\ now' = now + RateTickSeconds
    /\ last_call' = [op |-> "tick", args |-> <<>>, result |-> None]
    /\ UNCHANGED <<assess_vars, session_vars, graph_vars, trust_vars, orch_vars>>

NextRate == RateRecordStep \/ AnalysisStep \/ RateTick \/ SessionMetricsStep
SpecRate == Init /\ [][NextRate]_vars

\* C19: get_conversation_metrics on an existing session never fails:
\* total_messages and participant_count are the numbers of messages and of
\* senders, messages_per_minute is total_messages * 60 / duration_seconds when
\* the duration is positive and 0 when it is 0, and
\* average_messages_per_participant is 0 without participants.
C19_RatesGuarded ==
    (last_call.op = "get_conversation_metrics"
        /\ last_call.args[1] \in DOMAIN active_conversations) =>
        LET conversation == active_conversations[last_call.args[1]]
            r == last_call.result
            n == Len(conversation.messages)
            users == {conversation.messages[i].user_id : i \in 1..n}
        IN  /\ "error" \notin DOMAIN r
            /\ r.total_messages = n
            /\ r.participant_count = Cardinality(users)
            /\ r.messages_per_minute =
                  (IF r.duration_seconds > 0
                   THEN Frac(n * 60, r.duration_seconds) ELSE FInt(0))
            /\ r.average_messages_per_participant =
                  (IF users = {} THEN FInt(0) ELSE Frac(n, Cardinality(users)))

\* three messages of user 1 and two of user 2 over 120 seconds: 5 messages,
\* 2 participants, 2.5 messages per minute
C19_FiveMessagesInTwoMinutes ==
    /\ last_call.op = "get_conversation_metrics"
    /\ last_call.args[1] = "c1"
    /\ "error" \notin DOMAIN last_call.result
    /\ last_call.result.total_messages = 5
    /\ last_call.result.messages_per_participant = (1 :> 3 @@ 2 :> 2)
    /\ last_call.result.participant_count = 2
    /\ last_call.result.duration_seconds = 120
    /\ last_call.result.messages_per_minute = Frac(5, 2)

(***************************************************************************)
(* SpecGraph: MaxTracked interactions between any sender and receiver,     *)
(* with the clock advancing by half the rolling window at a time.          *)
(***************************************************************************)
MaxTracked == 3
MaxGraphTicks == 2
GraphTickSeconds == 15 * SecondsPerDay

TotalTracked ==
    SumOver(DOMAIN interaction_history,
            [k \in DOMAIN interaction_history |-> Len(interaction_history[k])])

TrackStep ==
    /\ TotalTracked < MaxTracked
    /\ \E sender_id \in UserIds, receiver_id \in UserIds, message_content \in Signals :
          track_interaction(sender_id, receiver_id, message_content)
    /\ UNCHANGED <<assess_vars, session_vars, trust_vars, orch_vars, now>>

GraphTick ==
    /\ now < MaxGraphTicks * GraphTickSeconds
    /\ now' = now + GraphTickSeconds
    /\ last_call' = [op |-> "tick", args |-> <<>>, result |-> None]
    /\ UNCHANGED <<assess_vars, session_vars, graph_vars, trust_vars, orch_vars>>

NextGraph == TrackStep \/ GraphTick
SpecGraph == Init /\ [][NextGraph]_vars

(***************************************************************************)
(* Claims about the interaction graph.                                     *)
(***************************************************************************)
Scores(events, field) == [i \in 1..Len(events) |-> events[i][field]]

\* C9: after N >= 1 tracked interactions on an ordered pair the edge's
\* avg_sentiment and avg_engagement equal the arithmetic means of the N values.
C9_EdgeAveragesAreMeans ==
    \A key \in DOMAIN interaction_history :
        /\ key \in DOMAIN interaction_graph
        /\ interaction_graph[key].avg_sentiment =
              FMean(Scores(interaction_history[key], "sentiment_score"))
        /\ interaction_graph[key].avg_engagement =
              FMean(Scores(interaction_history[key], "engagement_score"))

\* three interactions with three different sentiments on one pair
C9_ThreeOnOnePair ==
    \E key \in DOMAIN interaction_history :
        LET h == interaction_history[key]
        IN  /\ Len(h) = 3
            /\ h[1].sentiment_score # h[2].sentiment_score
            /\ h[2].sentiment_score # h[3].sentiment_score
            /\ h[1].sentiment_score # h[3].sentiment_score
            /\ interaction_graph[key].interactions = 3

\* C15: track calls on one ordered pair are serialized without a lost update.
\* Each call adds one event to the pair's history and one to the edge's
\* interaction count, so that after k calls the history holds k events, the
\* edge counts k and its avg_sentiment is the mean of the k sentiments; the
\* history and the edge of every other ordered pair stay as they were.
C15_NoLostTrack ==
    [][last_call'.op = "track_interaction" =>
          LET key == <<last_call'.args[1], last_call'.args[2]>>
              before == IF key \in DOMAIN interaction_history
                        THEN interaction_history[key] ELSE <<>>
              after == interaction_history'[key]
          IN  /\ Len(after) = Len(before) + 1
              /\ SubSeq(after, 1, Len(before)) = before
              /\ interaction_graph'[key].interactions = Len(after)
              /\ interaction_graph'[key].avg_sentiment =
                     FMean(Scores(after, "sentiment_score"))
              /\ \A other \in (DOMAIN interaction_history' \cup DOMAIN interaction_graph')
                               \ {key} :
                     /\ other \in DOMAIN interaction_history
                     /\ other \in DOMAIN interaction_graph
                     /\ interaction_history'[other] = interaction_history[other]
                     /\ interaction_graph'[other] = interaction_graph[other]]_vars

\* two calls on the pair (1, 2) with different sentiments and one on (2, 1)
C15_TwoPairsTracked ==
    /\ <<1, 2>> \in DOMAIN interaction_history
    /\ <<2, 1>> \in DOMAIN interaction_history
    /\ Len(interaction_history[<<1, 2>>]) = 2
    /\ Len(interaction_history[<<2, 1>>]) = 1
    /\ interaction_history[<<1, 2>>][1].sentiment_score
          # interaction_history[<<1, 2>>][2].sentiment_score
    /\ interaction_graph[<<1, 2>>].interactions = 2

\* C21: whenever the edges A->B and B->A both exist with identical interaction
\* counts and identical average sentiment and engagement, the relationship
\* strength of (A, B) equals the relationship strength of (B, A).
C21_StrengthSymmetric ==
    \A a \in UserIds, b \in UserIds :
        (/\ <<a, b>> \in DOMAIN interaction_graph
         /\ <<b, a>> \in DOMAIN interaction_graph
         /\ interaction_graph[<<a, b>>] = interaction_graph[<<b, a>>])
        => calculate_relationship_strength(interaction_graph, a, b)
             = calculate_relationship_strength(interaction_graph, b, a)

\* the edges 1->2 and 2->1 carry the same count and the same non-zero
\* averages, and user 2 (but not user 1) has also written to itself
C21_MirroredEdges ==
    /\ <<1, 2>> \in DOMAIN interaction_graph
    /\ <<2, 1>> \in DOMAIN interaction_graph
    /\ <<2, 2>> \in DOMAIN interaction_graph
    /\ <<1, 1>> \notin DOMAIN interaction_graph
    /\ interaction_graph[<<1, 2>>] = interaction_graph[<<2, 1>>]
    /\ interaction_graph[<<1, 2>>].avg_sentiment = Frac(1, 1)
    /\ calculate_relationship_strength(interaction_graph, 1, 2) = FInt(1)

\* C22: the graph is directed.  track(A, B, signal) appends the event to the
\* (A, B) history and updates the edge A->B only: the edge B->A, the (B, A)
\* history and the edges and histories of all other ordered pairs are as
\* they were before the call, and none of them is created by it.
C22_OnlyForwardEdgeTouched ==
    [][last_call'.op = "track_interaction" =>
          LET key == <<last_call'.args[1], last_call'.args[2]>>
          IN  /\ DOMAIN interaction_graph' = DOMAIN interaction_graph \cup {key}
              /\ DOMAIN interaction_history' = DOMAIN interaction_history \cup {key}
              /\ Len(interaction_history'[key])
                    = Len(Get(interaction_history, key, <<>>)) + 1
              /\ interaction_history'[key][Len(interaction_history'[key])].sender_id
                    = key[1]
              /\ interaction_history'[key][Len(interaction_history'[key])].receiver_id
                    = key[2]
              /\ interaction_graph'[key].interactions
                    = Get(interaction_graph, key, NewEdge).interactions + 1
              /\ \A other \in (UserIds \X UserIds) \ {key} :
                    /\ Get(interaction_graph', other, None)
                          = Get(interaction_graph, other, None)
                    /\ Get(interaction_history', other, None)
                          = Get(interaction_history, other, None)]_vars

\* 1 -> 2 was tracked twice and 2 -> 1 never: only the forward edge exists
C22_ForwardEdgeOnly ==
    /\ last_call.op = "track_interaction"
    /\ last_call.args = <<1, 2>>
    /\ <<1, 2>> \in DOMAIN interaction_graph
    /\ interaction_graph[<<1, 2>>].interactions = 2
    /\ <<2, 1>> \notin DOMAIN interaction_graph
    /\ <<2, 1>> \notin DOMAIN interaction_history

\* the recent interactions behind the metrics a track or a query returned
RecentOfLastCall ==
    get_recent_interactions(interaction_history, last_call.args[1], last_call.args[2], now)

MetricsReturned ==
    /\ last_call.op \in {"track_interaction", "calculate_relationship_metrics"}
    /\ last_call.result # EmptyMap
    /\ "error" \notin DOMAIN last_call.result

\* C29: the most recent value reported by sentiment_trend in metrics(A, B) is
\* the sentiment of an interaction with the latest timestamp among the recent
\* interactions of both directions, whatever the order of the track(A, B) and
\* track(B, A) calls.
C29_CurrentIsLatest ==
    MetricsReturned =>
        LET recent == RecentOfLastCall
            latest == {i \in 1..Len(recent) :
                          \A j \in 1..Len(recent) :
                              recent[j].timestamp <= recent[i].timestamp}
        IN  \E i \in latest :
                last_call.result.sentiment_trend.current = recent[i].sentiment_score

\* 1 - stdev / mean is 0: the stdev equals a positive mean
ConsistencyIsZero(c) ==
    /\ FLess(FInt(0), c.mean)
    /\ c.stdev_over_mean_squared = FInt(1)

\* C30: response_patterns never fails or yields an undefined value:
\* response_consistency is there, it is 0 with fewer than 2 data points or
\* with a mean inter-response time of 0, and 1 - stdev / mean otherwise.
C30_ConsistencyDefined ==
    MetricsReturned =>
        LET recent == RecentOfLastCall
            patterns == last_call.result.response_patterns
        IN  /\ "response_consistency" \in DOMAIN patterns
            /\ LET c == patterns.response_consistency
               IN  IF Len(recent) < 2 \/ c.mean = FInt(0)
                   THEN ConsistencyIsZero(c)
                   ELSE c.stdev_over_mean_squared \notin {NaN, Inf}

\* the edge s->r exists exactly when the (s, r) history is non-empty, and it
\* counts the events of that history
EdgeCountsHistory ==
    \A s \in UserIds, r \in UserIds :
        LET events == Get(interaction_history, <<s, r>>, <<>>)
        IN  /\ (<<s, r>> \in DOMAIN interaction_graph) <=> (events # <<>>)
            /\ <<s, r>> \in DOMAIN interaction_graph
                  => interaction_graph[<<s, r>>].interactions = Len(events)

EdgeCountGrows ==
    \A key \in DOMAIN interaction_graph :
        /\ key \in DOMAIN interaction_graph'
        /\ interaction_graph'[key].interactions >= interaction_graph[key].interactions

\* C34: in every reachable state and for every ordered pair (s, r), the edge
\* s->r exists exactly when the (s, r) history is non-empty and its
\* interaction count is the number of events of that history; an edge is
\* never removed and its count never decreases.
C34_EdgeMatchesHistory == []EdgeCountsHistory /\ [][EdgeCountGrows]_vars

\* two events from 1 to 2, one from 2 to 2, none from 2 to 1
C34_TwoOneNone ==
    /\ <<1, 2>> \in DOMAIN interaction_graph
    /\ interaction_graph[<<1, 2>>].interactions = 2
    /\ Len(interaction_history[<<1, 2>>]) = 2
    /\ <<2, 2>> \in DOMAIN interaction_graph
    /\ interaction_graph[<<2, 2>>].interactions = 1
    /\ <<2, 1>> \notin DOMAIN interaction_graph
    /\ <<2, 1>> \notin DOMAIN interaction_history

\* C38: relationship_strength is symmetric in every reachable state: for all
\* users A and B the strength of (A, B) equals the strength of (B, A), also
\* when only one of the two directed edges exists.
C38_StrengthAlwaysSymmetric ==
    \A a \in UserIds, b \in UserIds :
        calculate_relationship_strength(interaction_graph, a, b)
            = calculate_relationship_strength(interaction_graph, b, a)

\* the number of events of one ordered pair's history inside the rolling window
InWindow(key, t) ==
    LET events == Get(interaction_history, key, <<>>)
    IN  Cardinality({i \in 1..Len(events) :
                        events[i].timestamp > t - WindowDays * SecondsPerDay})

\* C31: metrics(A, B) is computed from exactly the events of the (A, B) and
\* (B, A) histories whose timestamp lies within the 30 days before now: the
\* result is empty when there is none, interaction_frequency is their number
\* divided by the window's days, and metrics(B, A) has the same frequency.
C31_FrequencyOverWindow ==
    (last_call.op \in {"track_interaction", "calculate_relationship_metrics"}
        /\ "error" \notin DOMAIN last_call.result) =>
        LET a == last_call.args[1]
            b == last_call.args[2]
            recent == InWindow(<<a, b>>, now) + InWindow(<<b, a>>, now)
            mirrored == calculate_relationship_metrics(interaction_graph,
                                                       interaction_history, b, a, now)
        IN  IF recent = 0 THEN last_call.result = EmptyMap /\ mirrored = EmptyMap
            ELSE /\ last_call.result # EmptyMap
                 /\ last_call.result.interaction_frequency = Frac(recent, WindowDays)
                 /\ mirrored.interaction_frequency = Frac(recent, WindowDays)

\* a track whose metrics count one event of each direction and leave out an
\* event that is thirty days old
C31_OldEventLeftOut ==
    /\ last_call.op = "track_interaction"
    /\ last_call.args = <<1, 2>>
    /\ "error" \notin DOMAIN last_call.result
    /\ InWindow(<<1, 2>>, now) = 1
    /\ InWindow(<<2, 1>>, now) = 1
    /\ Len(interaction_history[<<1, 2>>]) = 2
    /\ last_call.result.interaction_frequency = Frac(2, WindowDays)

(***************************************************************************)
(* SpecStrength: the graph after user 1 has sent one signal to user 2 up   *)
(* to MaxEdgeCount times and user 2 has sent one signal back up to         *)
(* MaxEdgeCount times or not at all, then metrics queries on every pair.   *)
(***************************************************************************)
MaxEdgeCount == 4

StrengthSignals ==
    { [sentiment |-> Frac(1, 2), engagement |-> Frac(1, 2)],
      [sentiment |-> Frac(3, 10), engagement |-> Frac(1, 2)],
      [sentiment |-> Frac(0 - 1, 1), engagement |-> Frac(1, 1)] }

\* the graph and the history after n calls of track_interaction with one event
RECURSIVE GraphAfter(_, _, _)
GraphAfter(graph, event, n) ==
    IF n = 0 THEN graph ELSE GraphAfter(update_graph(graph, event), event, n - 1)

RECURSIVE HistoryAfter(_, _, _)
HistoryAfter(history, event, n) ==
    IF n = 0 THEN history ELSE HistoryAfter(append_history(history, event), event, n - 1)

InitStrength ==
    /\ InitAssessment
    /\ InitSessions
    /\ relationships = EmptyMap
    /\ InitOrchestrator
    /\ InitClock
    /\ \E count_AB \in 1..MaxEdgeCount, count_BA \in 0..MaxEdgeCount,
          signal_AB \in StrengthSignals, signal_BA \in StrengthSignals :
          LET event_AB == InteractionEvent(1, 2, signal_AB, 0)
              event_BA == InteractionEvent(2, 1, signal_BA, 0)
          IN  /\ interaction_graph =
                     GraphAfter(GraphAfter(EmptyMap, event_AB, count_AB), event_BA, count_BA)
              /\ interaction_history =
                     HistoryAfter(HistoryAfter(EmptyMap, event_AB, count_AB),
                                  event_BA, count_BA)

StrengthStep ==
    /\ \E user1_id \in OrchUsers, user2_id \in OrchUsers :
          relationship_metrics_query(user1_id, user2_id)
    /\ UNCHANGED <<assess_vars, session_vars, trust_vars, orch_vars, now>>

NextStrength == StrengthStep
SpecStrength == InitStrength /\ [][NextStrength]_vars

\* the edge of an ordered pair, the zero state standing for an absent edge
EdgeOrZero(key) == Get(interaction_graph, key, NewEdge)

Harmony(x, y) == FSub(FInt(1), FDiv(FAbs(FSub(x, y)), FInt(2)))

\* C32: with the edge A->B present, relationship_strength(A, B) is
\* 0.3 * balance + 0.4 * sentiment_harmony + 0.3 * engagement_harmony, where
\* balance is min(count_AB, count_BA) / max(count_AB, count_BA, 1), a harmony
\* is 1 - |avg_AB - avg_BA| / 2, and an absent edge B->A counts as the zero
\* state; counts 4 and 2 with average sentiments 0.5 and 0.3 give balance 0.5
\* and sentiment harmony 0.9.
C32_StrengthFormula ==
    (/\ last_call.op = "calculate_relationship_metrics"
     /\ last_call.result # EmptyMap
     /\ "error" \notin DOMAIN last_call.result
     /\ <<last_call.args[1], last_call.args[2]>> \in DOMAIN interaction_graph) =>
        LET ab == interaction_graph[<<last_call.args[1], last_call.args[2]>>]
            ba == EdgeOrZero(<<last_call.args[2], last_call.args[1]>>)
            balance == Frac(Min(ab.interactions, ba.interactions),
                            Max(Max(ab.interactions, ba.interactions), 1))
            sentiment_harmony == Harmony(ab.avg_sentiment, ba.avg_sentiment)
            engagement_harmony == Harmony(ab.avg_engagement, ba.avg_engagement)
        IN  /\ last_call.result.relationship_strength =
                   FAdd(FMul(Frac(3, 10), balance),
                        FAdd(FMul(Frac(4, 10), sentiment_harmony),
                             FMul(Frac(3, 10), engagement_harmony)))
            /\ (/\ ab.interactions = 4
                /\ ba.interactions = 2
                /\ ab.avg_sentiment = Frac(1, 2)
                /\ ba.avg_sentiment = Frac(3, 10))
               => /\ balance = Frac(1, 2)
                  /\ sentiment_harmony = Frac(9, 10)
                  /\ last_call.result.relationship_strength =
                         FAdd(Frac(15, 100),
                              FAdd(Frac(36, 100), FMul(Frac(3, 10), engagement_harmony)))

\* the metrics of (1, 2) queried on the edges of the example: counts 4 and 2,
\* average sentiments 0.5 and 0.3, equal engagement
C32_FourAndTwo ==
    /\ last_call.op = "calculate_relationship_metrics"
    /\ last_call.args = <<1, 2>>
    /\ "error" \notin DOMAIN last_call.result
    /\ <<2, 1>> \in DOMAIN interaction_graph
    /\ interaction_graph[<<1, 2>>] =
           [interactions |-> 4, avg_sentiment |-> Frac(1, 2), avg_engagement |-> Frac(1, 2)]
    /\ interaction_graph[<<2, 1>>] =
           [interactions |-> 2, avg_sentiment |-> Frac(3, 10), avg_engagement |-> Frac(1, 2)]
    /\ last_call.result.relationship_strength = Frac(81, 100)

(***************************************************************************)
(* SpecQuery: a few interactions between users 1 and 2, the clock          *)
(* advancing as in SpecGraph, and metrics queries on every pair of users   *)
(* 1, 2 and 3.                                                             *)
(***************************************************************************)
MaxQueryTracked == 2

QueryTrackStep ==
    /\ TotalTracked < MaxQueryTracked
    /\ \E sender_id \in UserIds, receiver_id \in UserIds, message_content \in Signals :
          track_interaction(sender_id, receiver_id, message_content)
    /\ UNCHANGED <<assess_vars, session_vars, trust_vars, orch_vars, now>>

QueryStep ==
    /\ \E user1_id \in OrchUsers, user2_id \in OrchUsers :
          relationship_metrics_query(user1_id, user2_id)
    /\ UNCHANGED <<assess_vars, session_vars, trust_vars, orch_vars, now>>

NextQuery == QueryTrackStep \/ GraphTick \/ QueryStep
SpecQuery == Init /\ [][NextQuery]_vars

Untracked(key) ==
    /\ key \notin DOMAIN interaction_graph
    /\ key \in DOMAIN interaction_history => interaction_history[key] = <<>>

\* C20: calculate_relationship_metrics(u1, u2) for a pair with no edge and no
\* interaction in either direction returns the empty result, the relationship
\* strength of the pair is 0, and the query creates no edge and no history
\* entry: the graph and the histories stay as they were.
C20_NoEdgeEmptyResult ==
    [][last_call'.op = "calculate_relationship_metrics" =>
          LET u1 == last_call'.args[1]
              u2 == last_call'.args[2]
          IN  /\ interaction_graph' = interaction_graph
              /\ interaction_history' = interaction_history
              /\ (Untracked(<<u1, u2>>) /\ Untracked(<<u2, u1>>)) =>
                    /\ last_call'.result = EmptyMap
                    /\ calculate_relationship_strength(interaction_graph', u1, u2)
                          = FInt(0)]_vars

\* users 1 and 2 have interacted; the metrics of the pair (2, 3), which has
\* no edge in either direction, were asked for
C20_UntrackedPairQueried ==
    /\ last_call.op = "calculate_relationship_metrics"
    /\ last_call.args = <<2, 3>>
    /\ last_call.result = EmptyMap
    /\ <<1, 2>> \in DOMAIN interaction_graph
    /\ <<2, 1>> \in DOMAIN interaction_graph
    /\ <<2, 3>> \notin DOMAIN interaction_graph
    /\ <<3, 2>> \notin DOMAIN interaction_graph

(***************************************************************************)
(* SpecTrust: the profile of user 1 tracks user 2, with any initial trust  *)
(* of InitialTrust; the profile of user 2 tracks nobody.  MaxUpdates       *)
(* updates in all.                                                         *)
(***************************************************************************)
MaxUpdates == 3
InitialTrust == {FInt(0), Frac(1, 2), FInt(1)}

InitTrust ==
    /\ InitAssessment
    /\ InitSessions
    /\ InitGraph
    /\ \E t \in InitialTrust :
          relationships =
              [owner \in UserIds |->
                  IF owner = 1
                  THEN [r \in {2} |-> Relationship(2, [DefaultMetrics EXCEPT !.trust_score = t])]
                  ELSE EmptyMap]
    /\ InitOrchestrator
    /\ InitClock

TotalUpdates ==
    SumOver({<<o, r>> \in UserIds \X UserIds :
                o \in DOMAIN relationships /\ r \in DOMAIN relationships[o]},
            [k \in UserIds \X UserIds |->
                relationships[k[1]][k[2]].interaction_metrics.conversation_count])

UpdateStep ==
    /\ TotalUpdates < MaxUpdates
    /\ \E owner \in UserIds, related_user_id \in UserIds, interaction_data \in TrustSignals :
          update_relationship_metrics(owner, related_user_id, interaction_data)
    /\ UNCHANGED <<assess_vars, session_vars, graph_vars, orch_vars, now>>

NextTrust == UpdateStep
SpecTrust == InitTrust /\ [][NextTrust]_vars

(***************************************************************************)
(* Claims about the trust scores.                                          *)
(***************************************************************************)
InUnitInterval(x) == FLeq(FInt(0), x) /\ FLeq(x, FInt(1))

\* C10: from a trust_score in [0,1], after any sequence of updates whose signal
\* fields are in [0,1] (missing ones counting as 0), trust_score and
\* communication_quality stay within [0,1].
C10_TrustAndQualityBounded ==
    \A owner \in DOMAIN relationships :
        \A r \in DOMAIN relationships[owner] :
            /\ InUnitInterval(relationships[owner][r].interaction_metrics.trust_score)
            /\ InUnitInterval(relationships[owner][r].interaction_metrics.communication_quality)

\* both scores at the upper end after several updates
C10_ScoresAtUpperEnd ==
    \E owner \in DOMAIN relationships :
        \E r \in DOMAIN relationships[owner] :
            LET m == relationships[owner][r].interaction_metrics
            IN  /\ m.conversation_count >= 2
                /\ m.trust_score = FInt(1)
                /\ m.communication_quality = FInt(1)

\* C23: update_relationship_metrics fails with NotFound when the owner's
\* profile has no relationship entry for the related user (the result carries
\* an error), and then leaves every profile as it was.
C23_MissingRelationIsNotFound ==
    [][(/\ last_call'.op = "update_relationship_metrics"
        /\ last_call'.args[2] \notin DOMAIN relationships[last_call'.args[1]])
       => /\ "error" \in DOMAIN last_call'.result
          /\ relationships' = relationships]_vars

\* 0.3 * message_clarity + 0.3 * response_relevance + 0.4 * emotional_alignment
SignalQuality(signal) ==
    LET field(name) == IF name \in DOMAIN signal THEN signal[name] ELSE FInt(0)
    IN  FAdd(FAdd(FMul(Frac(3, 10), field("message_clarity")),
                  FMul(Frac(3, 10), field("response_relevance"))),
             FMul(Frac(4, 10), field("emotional_alignment")))

\* C33: communication_quality is a snapshot.  After an update of a record with
\* a signal it is 0.3 * message_clarity + 0.3 * response_relevance
\* + 0.4 * emotional_alignment of that signal, missing fields as 0, whatever
\* the record held before: a fresh record updated with the same signal ends
\* with the same communication_quality.
C33_QualityIsSnapshot ==
    [][\A owner \in UserIds, related_user_id \in UserIds, interaction_data \in TrustSignals :
          (/\ related_user_id \in DOMAIN relationships[owner]
           /\ update_relationship_metrics(owner, related_user_id, interaction_data))
          => LET after == relationships'[owner][related_user_id].interaction_metrics
             IN  /\ after.communication_quality = SignalQuality(interaction_data)
                 /\ after.communication_quality =
                        updated_metrics(DefaultMetrics, interaction_data).communication_quality
                 /\ last_call'.result.communication_quality = after.communication_quality]_vars

\* a record whose first update left communication_quality 1 and whose second
\* update, with a signal of message_clarity 1 only, left 0.3
C33_SecondSignalOnly ==
    /\ last_call.op = "update_relationship_metrics"
    /\ last_call.args = <<1, 2>>
    /\ LET m == relationships[1][2].interaction_metrics
       IN  /\ m.conversation_count = 2
           /\ m.average_sentiment = Frac(0 - 1, 25)
           /\ m.communication_quality = Frac(3, 10)

(***************************************************************************)
(* The orchestrator: concurrent process_conversation calls over one        *)
(* tracker and one cache.  Every user has a profile with a relationship    *)
(* record to every other user.                                             *)
(***************************************************************************)
MaxCalls == 2

CallSlots == 1..MaxCalls

InitOrch ==
    /\ InitAssessment
    /\ InitSessions
    /\ InitGraph
    /\ relationships = [p \in OrchUsers |->
                           [q \in OrchUsers \ {p} |-> Relationship(q, DefaultMetrics)]]
    /\ InitOrchestrator
    /\ InitClock

OrchFrame == UNCHANGED <<assess_vars, session_vars, relationships, now, reports>>

StartStep ==
    /\ \E c \in CallSlots, in \in ProcessInputs :
           /\ \A b \in CallSlots : b < c => b \in DOMAIN calls
           /\ process_conversation(c, in[1], in[2])
    /\ OrchFrame

MetricsStep == (\E c \in CallSlots : analyze_conversation_metrics(c)) /\ OrchFrame

SentimentStep ==
    (\E c \in CallSlots, ok \in BOOLEAN : sentiment_flow_returns(c, ok)) /\ OrchFrame

RelationshipStep == (\E c \in CallSlots : update_relationships_task(c)) /\ OrchFrame

CognitiveStep ==
    (\E c \in CallSlots, ok \in BOOLEAN : analyze_cognitive_indicators(c, ok)) /\ OrchFrame

ReturnStep == (\E c \in CallSlots : gather_returns(c)) /\ OrchFrame

RaiseStep == (\E c \in CallSlots : gather_raises(c)) /\ OrchFrame

NextOrch ==
    \/ StartStep
    \/ MetricsStep
    \/ SentimentStep
    \/ RelationshipStep
    \/ CognitiveStep
    \/ ReturnStep
    \/ RaiseStep
SpecOrch == InitOrch /\ [][NextOrch]_vars

\* SpecOrchLive: one process_conversation call.  Every step of the code that
\* is ready is eventually taken; the answer of analyze_sentiment_flow, an
\* external collaborator, may never come.
SingleStartStep ==
    /\ \E in \in ProcessInputs : process_conversation(1, in[1], in[2])
    /\ OrchFrame

NextOrchLive ==
    \/ SingleStartStep
    \/ MetricsStep
    \/ SentimentStep
    \/ RelationshipStep
    \/ CognitiveStep
    \/ ReturnStep
    \/ RaiseStep

\* ENABLED <<RelationshipStep>>_vars: the step always changes the task's status
RelationshipReady ==
    \E c \in DOMAIN calls :
        /\ calls[c].tasks["relationships"].status = "pending"
        /\ calls[c].tasks["metrics"].status # "pending"

\* WF_vars(RelationshipStep), with the enabling condition written out
RelationshipFair ==
    ([]<>~RelationshipReady) \/ ([]<><<RelationshipStep>>_vars)

SpecOrchLive ==
    /\ InitOrch
    /\ [][NextOrchLive]_vars
    /\ WF_vars(MetricsStep)
    /\ RelationshipFair
    /\ WF_vars(CognitiveStep)
    /\ WF_vars(ReturnStep)
    /\ WF_vars(RaiseStep)

(***************************************************************************)
(* SpecReport: the calls of SpecOrch, and up to MaxReports reports that    *)
(* get past the cache lookup.                                              *)
(***************************************************************************)
MaxReports == 2

ReportSlots == 1..MaxReports

ReportFrame == UNCHANGED <<assess_vars, session_vars, relationships, now>>

ReportStep ==
    /\ \E r \in ReportSlots, conversation_id \in ConversationIds, user_id \in UserIds :
           /\ \A b \in ReportSlots : b < r => b \in DOMAIN reports
           /\ generate_analysis_report(r, conversation_id, user_id)
    /\ ReportFrame

DashboardStep ==
    /\ \E r \in ReportSlots, ok \in BOOLEAN : create_relationship_dashboard_returns(r, ok)
    /\ ReportFrame

NextReport ==
    \/ StartStep
    \/ MetricsStep
    \/ SentimentStep
    \/ RelationshipStep
    \/ CognitiveStep
    \/ ReturnStep
    \/ RaiseStep
    \/ ReportStep
    \/ DashboardStep
SpecReport == InitOrch /\ [][NextReport]_vars

(***************************************************************************)
(* Claims about the orchestrator                                           *)
(***************************************************************************)
TaskResults(call) ==
    <<call.tasks["metrics"].result, call.tasks["relationships"].result,
      call.tasks["cognitive"].result>>

Interactions(graph, key) == IF key \in DOMAIN graph THEN graph[key].interactions ELSE 0

\* C5: process is all-or-nothing with respect to the cache.  A call returns only
\* when its three sub-analyses have all completed successfully, and then the
\* cache entry of its conversation becomes the merged report; the cache changes
\* in no other step; a call with a failed sub-analysis never returns, and the
\* step in which its failure propagates leaves the cache as it was.
C5_AllOrNothing ==
    [][/\ \A c \in DOMAIN calls :
             /\ (calls[c].state = "gathering" /\ calls'[c].state = "returned") =>
                    /\ \A n \in TaskNames : calls[c].tasks[n].status = "done"
                    /\ analysis_cache' =
                          MapPut(analysis_cache, calls[c].context.conversation_id,
                                 combine_analysis_results(TaskResults(calls[c]),
                                                          calls[c].context))
             /\ (calls[c].state = "gathering" /\ AnyFailed(calls[c])) =>
                    calls'[c].state \in {"gathering", "raised"}
             /\ (calls[c].state = "gathering" /\ calls'[c].state = "raised") =>
                    analysis_cache' = analysis_cache
       /\ analysis_cache' # analysis_cache =>
             \E c \in DOMAIN calls :
                 calls[c].state = "gathering" /\ calls'[c].state = "returned"]_vars

\* a call on a conversation failed after an earlier call on the same
\* conversation had returned: the cache still holds the earlier report
C5_FailedAfterCached ==
    /\ last_call.op = "process_conversation"
    /\ last_call.result = "raised"
    /\ \E c, d \in DOMAIN calls :
           /\ calls[c].state = "returned"
           /\ calls[d].state = "raised"
           /\ calls[d].tasks["relationships"].status = "failed"
           /\ calls[c].context.conversation_id = calls[d].context.conversation_id
           /\ calls[c].context.conversation_id \in DOMAIN analysis_cache

\* C6: the relationship sub-analysis of a call with primary user p performs,
\* for every participant q # p, exactly one track on the edge (p, q) and one
\* TrustScorer.update on the relationship record p -> q (its
\* conversation_count grows by one), and nothing for p itself.
C6_TrackAndTrustUpdate ==
    [][\A c \in DOMAIN calls :
          (/\ calls[c].tasks["relationships"].status = "pending"
           /\ calls'[c].tasks["relationships"].status = "done") =>
             LET p == calls[c].context.user_id
                 participants == calls[c].context.participants
             IN  \A i \in 1..Len(participants) :
                    LET q == participants[i]
                    IN  IF q = p
                        THEN Interactions(interaction_graph', <<p, p>>) = 0
                        ELSE /\ Interactions(interaction_graph', <<p, q>>) =
                                   Interactions(interaction_graph, <<p, q>>) + 1
                             /\ relationships'[p][q].interaction_metrics.conversation_count =
                                   relationships[p][q].interaction_metrics.conversation_count + 1
      ]_vars

\* a successful process call has cached an analysis of the conversation
ProcessedOk(conversation_id) ==
    \E c \in DOMAIN calls :
        /\ calls[c].state = "returned"
        /\ calls[c].context.conversation_id = conversation_id

\* C24: generate_analysis_report(conversation_id, user_id) fails with NotFound
\* exactly when no successful process call has cached an analysis for the
\* conversation, and then does not call the visualizer; after a successful
\* process call for the conversation the report does not fail with NotFound,
\* neither at the lookup nor when the visualizer has answered.
C24_NotFoundIffNotCached ==
    [][/\ (last_call'.op = "generate_analysis_report" /\ last_call' # last_call) =>
             /\ (last_call'.result = ReportNotFound)
                   <=> ~ProcessedOk(last_call'.args[1])
             /\ ~ProcessedOk(last_call'.args[1]) => reports' = reports
             /\ ProcessedOk(last_call'.args[1]) =>
                   \E r \in DOMAIN reports' \ DOMAIN reports :
                       /\ reports'[r].state = "rendering"
                       /\ reports'[r].conversation_id = last_call'.args[1]
       /\ last_call'.op = "create_relationship_dashboard" =>
             /\ ProcessedOk(last_call'.args[1])
             /\ last_call'.result # ReportNotFound]_vars

\* a report of c1 is refused while c2, processed successfully, has a report
\* at the visualizer
C24_RefusedBesideRendered ==
    /\ last_call.op = "generate_analysis_report"
    /\ last_call.args[1] = "c1"
    /\ last_call.result = ReportNotFound
    /\ "c1" \notin DOMAIN analysis_cache
    /\ ProcessedOk("c2")
    /\ \E r \in DOMAIN reports : reports[r].conversation_id = "c2"

\* C25: for a conversation cached by a successful process call the report
\* completes once the visualizer has answered, and its recommendations hold a
\* communication suggestion exactly when the average message length is below
\* 10 and a relationship suggestion naming q for exactly the participants q of
\* the cached relationship updates whose trust score is below 0.5.
C25_ReportRecommends ==
    [][\A r \in DOMAIN reports :
          (/\ reports[r].state = "rendering"
           /\ reports'[r].state # "rendering"
           /\ last_call'.result.error # "VisualizerError") =>
             LET analysis == reports[r].analysis
                 updates == analysis.relationship_updates
             IN  /\ reports'[r].state = "returned"
                 /\ "recommendations" \in DOMAIN last_call'.result
                 /\ CommunicationSuggestion \in last_call'.result.recommendations
                       <=> FLess(analysis.conversation_metrics.avg_message_length,
                                 FInt(10))
                 /\ \A q \in OrchUsers :
                       RelationshipSuggestion(q) \in last_call'.result.recommendations
                       <=> /\ q \in DOMAIN updates
                           /\ FLess(updates[q].trust_score, Frac(1, 2))]_vars

\* C26: when a fan-out subtask of a call fails, the failure is propagated and
\* the sibling subtasks are cancelled: once the call has raised, none of its
\* tasks takes a further step and the graph gets no further track of the call.
C26_SiblingsCancelled ==
    [][\A c \in DOMAIN calls :
          calls[c].state = "raised" =>
              \A n \in TaskNames : calls'[c].tasks[n].status = calls[c].tasks[n].status]_vars

\* C27: every process call eventually terminates, with a merged report or with
\* a failure, even when an external collaborator never responds.
C27_ProcessTerminates ==
    (1 \in DOMAIN calls) ~> (1 \in DOMAIN calls /\ calls[1].state # "gathering")

\* C36: if process fails because one of its subtasks failed, the graph is left
\* as it was before the call.  With one call on the graph as constructed: once
\* the call has raised, the graph has no edge and the history no event.
C36_FailedCallLeavesGraph ==
    (1 \in DOMAIN calls /\ calls[1].state = "raised") =>
        /\ interaction_graph = EmptyMap
        /\ interaction_history = EmptyMap

=========================================================================
